---- MODULE Spec2Model ----
(***************************************************************************)
(* A model of the EBANX PTP tester window (src/qt_gui.py): the form <->    *)
(* JSON payload synchronisation of the three tabs, privacy-mode masking,   *)
(* and the dispatch of requests to a background worker.                    *)
(*                                                                         *)
(* Text is a sequence of one-character strings, so that str.strip, the     *)
(* masking functions and str() are computed character by character.  A     *)
(* JSON value is a tagged record [t, v]; a dict is a function from keys to *)
(* JSON values.  Each handler of TesterWindow is an operator from the      *)
(* window's state (a record of its attributes) to its state; a Qt signal   *)
(* emitted by a widget setter is the call of the connected slot.           *)
(***************************************************************************)
EXTENDS Integers, Sequences, FiniteSets, TLC

\* ------------------------------------------------------------------------
\* Bounds of the model
\* ------------------------------------------------------------------------
\* Number of user operations (edits, selections, toggles, clicks) in a run.
MaxOps == 3

\* Longest text given to the masking functions.
MaxMaskLen == 9

\* ------------------------------------------------------------------------
\* Text
\* ------------------------------------------------------------------------
RECURSIVE LStrip(_)
LStrip(s) ==
    IF s # << >> /\ Head(s) = " " THEN LStrip(Tail(s)) ELSE s

RECURSIVE RStrip(_)
RStrip(s) ==
    IF s # << >> /\ s[Len(s)] = " " THEN RStrip(SubSeq(s, 1, Len(s) - 1)) ELSE s

\* str.strip()
Strip(s) == RStrip(LStrip(s))

\* "*" * n
RECURSIVE Stars(_)
Stars(n) == IF n <= 0 THEN << >> ELSE Append(Stars(n - 1), "*")

\* s[:n]
Prefix(s, n) == SubSeq(s, 1, IF n < Len(s) THEN n ELSE Len(s))

\* s[-n:] for 0 < n <= len(s)
Suffix(s, n) == SubSeq(s, Len(s) - n + 1, Len(s))

\* needle in haystack, for two str
IsSubstring(needle, hay) ==
    \E i \in 0..(Len(hay) - Len(needle)) :
        SubSeq(hay, i + 1, i + Len(needle)) = needle

Digit(d) ==
    CASE d = 0 -> "0" [] d = 1 -> "1" [] d = 2 -> "2" [] d = 3 -> "3"
      [] d = 4 -> "4" [] d = 5 -> "5" [] d = 6 -> "6" [] d = 7 -> "7"
      [] d = 8 -> "8" [] OTHER -> "9"

\* str(n) for an int
RECURSIVE DecStr(_)
DecStr(n) ==
    IF n < 0 THEN <<"-">> \o DecStr(0 - n)
    ELSE IF n < 10 THEN <<Digit(n)>>
    ELSE DecStr(n \div 10) \o <<Digit(n % 10)>>

\* ------------------------------------------------------------------------
\* JSON values (what json.loads returns)
\* ------------------------------------------------------------------------
JStr(s)  == [t |-> "str",  v |-> s]
JNum(n)  == [t |-> "num",  v |-> n]
JBool(b) == [t |-> "bool", v |-> b]
JNull    == [t |-> "null", v |-> 0]
JObj(f)  == [t |-> "obj",  v |-> f]
JList(q) == [t |-> "list", v |-> q]

\* Python's None
PyNone == JNull

IsObj(x) == x.t = "obj"

\* bool(x)
Truthy(x) ==
    CASE x.t = "str"  -> x.v # << >>
      [] x.t = "num"  -> x.v # 0
      [] x.t = "bool" -> x.v
      [] x.t = "null" -> FALSE
      [] x.t = "obj"  -> DOMAIN x.v # {}
      [] OTHER        -> x.v # << >>

\* the function f on the keys S, as an explicit table
RECURSIVE Table(_, _)
Table(f, S) ==
    IF S = {} THEN << >>
    ELSE LET k == CHOOSE x \in S : TRUE
         IN (k :> f[k]) @@ Table(f, S \ {k})

\* key in d, for a dict d
Has(d, k) == IsObj(d) /\ k \in DOMAIN d.v

\* d[k] for a dict d holding k
Get(d, k) == d.v[k]

\* d[k] = x on a dict
Put(d, k, x) == JObj((k :> x) @@ d.v)

\* del d[k] on a dict
Del(d, k) == JObj(Table(d.v, (DOMAIN d.v) \ {k}))

\* d.get(k, default)
GetOr(d, k, dflt) == IF Has(d, k) THEN Get(d, k) ELSE dflt

\* str(x): the text Python gives a JSON value (containers: the empty ones)
Str(x) ==
    CASE x.t = "str"  -> x.v
      [] x.t = "num"  -> DecStr(x.v)
      [] x.t = "bool" -> IF x.v THEN <<"T","r","u","e">> ELSE <<"F","a","l","s","e">>
      [] x.t = "null" -> <<"N","o","n","e">>
      [] x.t = "obj"  -> <<"{","}">>
      [] OTHER        -> <<"[","]">>

\* The text of a JSON editor: the serialisation of a value (json.dumps), or
\* text that json.loads rejects, or nothing.
TextOf(x)  == [k |-> "json",  v |-> x]
BadText    == [k |-> "bad",   v |-> JNull]
NoText     == [k |-> "empty", v |-> JNull]

\* json.loads(text.strip()) or None (JSONTextEdit.get_json_data)
get_json_data(text) == IF text.k = "json" THEN text.v ELSE PyNone

\* json.dumps(data, indent=2) put into the editor (JSONTextEdit.set_json_text)
set_json_text(data) == TextOf(data)

\* ------------------------------------------------------------------------
\* Literals of the program and the data files of the runs
\* ------------------------------------------------------------------------
\* "{integration_key}"
Placeholder ==
    <<"{","i","n","t","e","g","r","a","t","i","o","n","_","k","e","y","}">>

\* "integration_key"
IntegrationKeyText ==
    <<"i","n","t","e","g","r","a","t","i","o","n","_","k","e","y">>

\* "/ws/direct"
WsDirect == <<"/","w","s","/","d","i","r","e","c","t">>

\* API keys of the runs: two long enough to be masked, one too short
KeyA     == <<"a","b","c","d","1","2","3","4","5">>
KeyB     == <<"w","x","y","z","9","8","7","6","5","4">>
KeyShort == <<"k","1">>
\* a key that was saved inside a custom payload or an APM profile
KeyOld   == <<"o","l","d","k","0","0","0","0","1">>

Visa   == <<"4","1","1","1","1","1","1","1","1","1","1","1","1","1","1","1">>
Master == <<"5","5","5","5","5","5","5","5","5","5","5","5","4","4","4","4">>
Cvv123 == <<"1","2","3">>
Cvv9   == <<"9","8","7","6">>
NameTU == <<"T","U">>
Due25  == <<"1","2","/","2","5">>
SdOld  == <<"O","L","D">>
SdNew  == <<"S","D">>
SdPad  == <<" ","S","D"," ">>
NamePad == <<" ","A","l"," ">>
Num42  == <<"4","2","4","2","4","2","4","2">>
BaseUrl == <<"h",":","/","/","a","p","i","/">>
PtpA   == <<"p","t","p","A">>
PtpB   == <<"p","t","p","B">>
\* a PTP name whose last character is outside Latin-1 (one element stands for it)
PtpC   == <<"p","t","p","U+2713">>

Tabs     == {"non3ds", "3ds", "apm"}
CardTabs == {"non3ds", "3ds"}

\* the keys of the card form, in the order of card_fields
CardKeys == <<"card_number", "card_name", "card_due_date", "card_cvv">>

\* custom_payload for the Non-3DS tab, custom_payload_3ds for the 3DS tab
CustomKey(tab) == IF tab = "3ds" THEN "custom_payload_3ds" ELSE "custom_payload"

CustomerNG ==
    JObj([name |-> JStr(NameTU), email |-> JStr(<<"n","@","e">>),
          phone_number |-> JStr(<<"+","2","3","4">>),
          birth_date |-> JStr(<<"0","1","/","9","0">>),
          country |-> JStr(<<"n","g">>), currency_code |-> JStr(<<"N","G","N">>),
          default_amount |-> JNum(100)])

CustomerKE ==
    JObj([name |-> JStr(NameTU), email |-> JStr(<<"k","@","e">>),
          phone_number |-> JStr(<<"+","2","5","4">>),
          birth_date |-> JStr(<<"0","1","/","9","0">>),
          country |-> JStr(<<"k","e">>), currency_code |-> JStr(<<"K","E","S">>),
          default_amount |-> JNum(75)])

\* a payload a user saved with a card: it carries its own integration_key, a
\* soft_descriptor and one key (merchant) the builder knows nothing about
SavedPayload(number, auto, force) ==
    JObj([integration_key |-> JStr(KeyOld), operation |-> JStr(<<"r","e","q">>),
          merchant |-> JStr(<<"m","1">>),
          payment |-> JObj([amount_total |-> JNum(100),
                            card |-> JObj([card_number |-> JStr(number),
                                           card_name |-> JStr(NameTU),
                                           card_due_date |-> JStr(Due25),
                                           card_cvv |-> JStr(Cvv123),
                                           auto_capture |-> JBool(auto),
                                           threeds_force |-> JBool(force),
                                           soft_descriptor |-> JStr(SdOld)])])])

\* card objects of the catalog file of the runs: one with saved payloads for
\* both tabs, one plain, one whose saved payload has no payment block
Card1 ==
    JObj([card_number |-> JStr(Visa), card_name |-> JStr(NameTU),
          card_due_date |-> JStr(Due25), card_cvv |-> JStr(Cvv123),
          description |-> JStr(<<"c","1">>),
          custom_payload |-> SavedPayload(Visa, TRUE, FALSE),
          custom_payload_3ds |-> SavedPayload(Visa, FALSE, TRUE)])

Card2 ==
    JObj([card_number |-> JStr(Master), card_name |-> JStr(NameTU),
          card_due_date |-> JStr(Due25), card_cvv |-> JStr(Cvv9),
          description |-> JStr(<<"c","2">>)])

Card3 ==
    JObj([card_number |-> JStr(Visa), card_name |-> JStr(<<"K","U">>),
          card_due_date |-> JStr(Due25), card_cvv |-> JStr(Cvv123),
          description |-> JStr(<<"c","3">>),
          custom_payload |-> JObj([operation |-> JStr(<<"r","e","q">>),
                                   integration_key |-> JStr(KeyOld)])])

\* The card objects in memory: test_data holds references (ids) to them, as
\* flat_cards does; `c is target_card` compares the ids.
CardsHeap == <<Card1, Card2, Card3>>

\* test-cards.json as loaded: country -> {customer_data, debitcard: {type: [card]}}
\* with the dicts in file order
CardsCatalog ==
    << [country |-> "NG", customer_data |-> CustomerNG,
        debitcard |-> << [card_type |-> "visa", cards |-> <<1>>],
                         [card_type |-> "mastercard", cards |-> <<2>>] >>],
       [country |-> "KE", customer_data |-> CustomerKE,
        debitcard |-> << [card_type |-> "visa", cards |-> <<3>>] >>] >>

\* test-apms.json as loaded, flattened in file order: a payment-nested profile
\* and a flat one
ApmMpesa ==
    JObj([description |-> JStr(<<"m">>),
          payload |-> JObj([integration_key |-> JStr(KeyOld),
                            operation |-> JStr(<<"r","e","q">>),
                            payment |-> JObj([name |-> JStr(NameTU),
                                              phone_number |-> JStr(<<"2","5","4">>),
                                              amount_total |-> JStr(<<"5","0">>)])])])

ApmBank ==
    JObj([description |-> JStr(<<"b">>),
          payload |-> JObj([integration_key |-> JStr(KeyOld),
                            operation |-> JStr(<<"r","e","q">>),
                            name |-> JStr(NameTU),
                            amount |-> JNum(2000),
                            instalments |-> JStr(<<"1">>)])])

ApmCatalog ==
    << [country |-> "KE", payment_method |-> "MPESA", profile_name |-> "Wiza",
        apm_data |-> ApmMpesa],
       [country |-> "NG", payment_method |-> "Bank Transfer", profile_name |-> "Wiza",
        apm_data |-> ApmBank] >>

\* ptp-list.txt as loaded
PtpList == <<PtpA, PtpB, PtpC>>

\* the object names of apm_form_fields, in the order the tab creates them
ApmFieldNames ==
    <<"name", "email", "phone_number", "country", "payment_type_code",
      "currency_code", "amount_total", "document", "redirect_url",
      "sub_acc_code", "sub_acc_image_url", "instalments">>

\* field_mapping of the payment-nested structure: payload key -> form field
ApmNestedKeys ==
    <<"name", "email", "phone_number", "country", "payment_type_code",
      "currency_code", "amount_total", "document">>

\* field_mapping of the direct structure: payload keys, in order
ApmFlatKeys ==
    <<"name", "email", "country", "payment_type_code", "currency_code",
      "amount", "redirect_url", "sub_acc_code", "sub_acc_image_url", "instalments">>

\* the form field a direct-structure payload key maps to
ApmFlatField(k) == IF k = "amount" THEN "amount_total" ELSE k

\* The data files, by the end of their path
CardsPath == "test-cards.json"
ApmsPath  == "test-apms.json"
OtherPath == "notes.json"
Paths     == {CardsPath, ApmsPath, OtherPath}

\* a path at which os.path.exists is False
Absent == [k |-> "absent", v |-> << >>]

\* a file whose text json.load rejects
BadFile == [k |-> "bad", v |-> << >>]

\* json.dump of a list of card objects: the ids become the objects
RECURSIVE DumpCards(_, _)
DumpCards(ids, h) ==
    IF ids = << >> THEN << >>
    ELSE <<h[Head(ids)]>> \o DumpCards(Tail(ids), h)

RECURSIVE DumpTypes(_, _)
DumpTypes(types, h) ==
    IF types = << >> THEN << >>
    ELSE <<[card_type |-> Head(types).card_type,
            cards |-> DumpCards(Head(types).cards, h)]>>
         \o DumpTypes(Tail(types), h)

\* json.dump(self.test_data): the document of the catalog in memory
RECURSIVE DumpCatalog(_, _)
DumpCatalog(data, h) ==
    IF data = << >> THEN << >>
    ELSE <<[country |-> Head(data).country,
            customer_data |-> Head(data).customer_data,
            debitcard |-> DumpTypes(Head(data).debitcard, h)]>>
         \o DumpCatalog(Tail(data), h)

\* the data directory of the runs: both catalogs are there
FilesOfRuns ==
    (CardsPath :> TextOf(DumpCatalog(CardsCatalog, CardsHeap)))
    @@ (ApmsPath :> TextOf(ApmCatalog))
    @@ (OtherPath :> Absent)

\* ------------------------------------------------------------------------
\* The state: the attributes of TesterWindow, the worker threads, the
\* config file
\* ------------------------------------------------------------------------
VARIABLES
    heap,                     \* the card objects test_data and flat_cards refer to
    test_data,                \* self.test_data
    flat_cards,               \* self.flat_cards / self.flat_cards_3ds
    card_combo,               \* currentIndex() of card_combo / card_combo_3ds
    card_fields,              \* text of card_fields / card_fields_3ds
    key_edit,                 \* text of key_edit
    original_api_key,         \* self._original_api_key
    soft_descriptor_edit,     \* text of soft_descriptor_edit
    soft_descriptor_checkbox, \* isChecked()
    privacy_mode_checkbox,    \* isChecked()
    read_only,                \* isReadOnly() of key_edit, the card number and CVV
                              \* fields and the two card payload editors
    base_url_edit,            \* text of base_url_edit
    payload_edit,             \* text of payload_edit / _3ds / _apm
    syncing,                  \* self._syncing
    ptp_combo,                \* currentText() of ptp_combo / _3ds / _apm
    run_btn,                  \* isEnabled() of run_btn / run_btn_3ds / test_btn_apm
    apm_flat_list,            \* self.apm_flat_list
    apm_combo,                \* currentIndex() of apm_combo
    apm_form_fields,          \* text of apm_form_fields, by objectName
    self_apm_data,            \* self.apm_data
    self_cfg,                 \* self.cfg, the config loaded by __init__
    response_edit,            \* the blocks of response_edit / _3ds / _apm
    latest_request_info,      \* self._latest_request_info / _3ds / _apm
    authenticate_3ds_btn,     \* isEnabled() of authenticate_3ds_btn_3ds
    current_3ds_url,          \* self._current_3ds_url_3ds
    threads,                  \* per tab, the workers started and not yet handled
    config_file,              \* what save_config last wrote
    files,                    \* the data files on disk, by path
    disk_ok,                  \* whether the disk takes writes
    nops,                     \* user operations so far
    live_key,                 \* the unmasked key the key field last showed
    last                      \* what the last handler did (its trace)

vars ==
    <<heap, test_data, flat_cards, card_combo, card_fields, key_edit,
      original_api_key, soft_descriptor_edit, soft_descriptor_checkbox,
      privacy_mode_checkbox, read_only, base_url_edit, payload_edit, syncing,
      ptp_combo, run_btn, apm_flat_list, apm_combo, apm_form_fields, self_apm_data, self_cfg,
      response_edit, latest_request_info, authenticate_3ds_btn, current_3ds_url,
      threads, config_file, files, disk_ok, nops, live_key, last>>

\* the trace of a handler that is about to run
FreshLast(op, tab) ==
    [op |-> op, tab |-> tab,
     rebuilds |-> 0,         \* bodies of update_payload_preview* run
     formSyncs |-> 0,        \* bodies of on_payload_changed* run
     viewWrites |-> 0,       \* programmatic writes of a payload JSON view
     formWrites |-> 0,       \* programmatic writes of a form field, key or toggle
     ranWhileSyncing |-> FALSE, \* a synchronisation body ran with _syncing set
     exceptions |-> 0,       \* exceptions that left a slot unhandled
     notices |-> {},         \* titles of the message boxes shown
     dispatched |-> FALSE,   \* a worker was started
     failedWrites |-> 0,     \* writes of a file that raised OSError
     appended |-> << >>,     \* the appendPlainText calls on the response views
     opened |-> << >>,       \* the URLs handed to webbrowser.open
     builds |-> << >>]       \* the local `payload` of each card-tab rebuild

\* the window as a record, for the handlers
Self ==
    [heap |-> heap, test_data |-> test_data, flat_cards |-> flat_cards,
     card_combo |-> card_combo, card_fields |-> card_fields, key_edit |-> key_edit,
     original_api_key |-> original_api_key, has_original |-> TRUE,
     soft_descriptor_edit |-> soft_descriptor_edit,
     soft_descriptor_checkbox |-> soft_descriptor_checkbox,
     privacy_mode_checkbox |-> privacy_mode_checkbox, read_only |-> read_only,
     base_url_edit |-> base_url_edit, payload_edit |-> payload_edit,
     syncing |-> syncing, ptp_combo |-> ptp_combo, run_btn |-> run_btn,
     apm_flat_list |-> apm_flat_list, apm_combo |-> apm_combo,
     apm_form_fields |-> apm_form_fields, self_apm_data |-> self_apm_data, self_cfg |-> self_cfg,
     response_edit |-> response_edit, latest_request_info |-> latest_request_info,
     authenticate_3ds_btn |-> authenticate_3ds_btn,
     current_3ds_url |-> current_3ds_url, threads |-> threads,
     config_file |-> config_file, files |-> files, disk_ok |-> disk_ok,
     last |-> last, raised |-> FALSE]

\* an exception starts to propagate out of the running method
Raise(s) == [s EXCEPT !.raised = TRUE]

\* A slot returns to Qt: an exception that reaches this point is reported on
\* stderr and goes no further (PySide6), the emitting code continues.
Slot(s) ==
    [s EXCEPT !.raised = FALSE,
              !.last.exceptions = @ + (IF s.raised THEN 1 ELSE 0)]

\* QMessageBox.warning / critical / information with this title
Notice(s, title) == [s EXCEPT !.last.notices = @ \cup {title}]

\* ------------------------------------------------------------------------
\* Response views
\* ------------------------------------------------------------------------
\* the request header of run_test*: the URL, the PTP and the card description
\* or APM profile; NoInfo before the first Run Test of a tab
RequestInfo(url, ptp, what) == [url |-> url, ptp |-> ptp, what |-> what]

NoInfo == RequestInfo(<< >>, << >>, << >>)

\* one piece of text in a response view: its kind, and the request header or
\* the value it shows
Block(kind, info, body) == [kind |-> kind, info |-> info, body |-> body]

\* a requests.Response: the status code, whether resp.json() parses the body,
\* the parsed body, and resp.text of a body that is not JSON
Reply(status, json, data, text) ==
    [status |-> status, json |-> json, data |-> data, text |-> text]

\* no response yet
NoReply == Reply(0, FALSE, JNull, << >>)

\* response_edit*.appendPlainText(text)
appendPlainText(s, tab, block) ==
    [s EXCEPT !.response_edit[tab] = Append(@, block),
              !.last.appended = Append(@, [tab |-> tab, block |-> block])]

\* JSONTextEdit.set_json_text(data) on a response view: setPlainText of the
\* formatted data, which replaces the text of the view
setPlainText(s, tab, data) ==
    [s EXCEPT !.response_edit[tab] = <<Block("json", NoInfo, data)>>]

\* response_edit*.clear()
ClearView(s, tab) == [s EXCEPT !.response_edit[tab] = << >>]

\* ------------------------------------------------------------------------
\* Masking
\* ------------------------------------------------------------------------
\* mask_card_number that keeps four characters instead of six
mask_card_number_first4(card_number) ==
    IF card_number = << >> \/ Len(card_number) < 6 THEN card_number
    ELSE Prefix(card_number, 4) \o Stars(Len(card_number) - 4)

mask_card_number(card_number) ==
    IF card_number = << >> \/ Len(card_number) < 6 THEN card_number
    ELSE Prefix(card_number, 6) \o Stars(Len(card_number) - 6)

mask_cvv(cvv) == IF cvv = << >> THEN cvv ELSE Stars(Len(cvv))

mask_api_key(api_key) ==
    IF api_key = << >> \/ Len(api_key) < 8 THEN api_key
    ELSE Prefix(api_key, 4) \o Stars(Len(api_key) - 8) \o Suffix(api_key, 4)

\* ------------------------------------------------------------------------
\* Config persistence
\* ------------------------------------------------------------------------
\* save_config(cfg): the file holds cfg
save_config(s, cfg) ==
    IF s.disk_ok THEN [s EXCEPT !.config_file = cfg]
    ELSE Raise([s EXCEPT !.last.failedWrites = @ + 1])

persist_settings(s) ==
    LET api_key_to_save ==
            IF s.privacy_mode_checkbox
            THEN (IF s.has_original THEN s.original_api_key ELSE s.key_edit)
            ELSE s.key_edit
    IN save_config(s,
         [integration_key |-> api_key_to_save,
          base_url |-> s.base_url_edit,
          soft_descriptor |-> s.soft_descriptor_edit,
          use_soft_descriptor |-> s.soft_descriptor_checkbox,
          privacy_mode |-> s.privacy_mode_checkbox,
          last_ptp |-> s.ptp_combo["non3ds"],
          last_ptp_3ds |-> s.ptp_combo["3ds"],
          last_ptp_apm |-> s.ptp_combo["apm"],
          last_card_index |-> s.card_combo["non3ds"],
          last_card_index_3ds |-> s.card_combo["3ds"]])

\* ------------------------------------------------------------------------
\* Card catalog helpers
\* ------------------------------------------------------------------------
RECURSIVE FlattenList(_, _)
FlattenList(country, cards) ==
    IF cards = << >> THEN << >>
    ELSE <<[country |-> country, card |-> Head(cards)]>>
         \o FlattenList(country, Tail(cards))

RECURSIVE FlattenTypes(_, _)
FlattenTypes(country, types) ==
    IF types = << >> THEN << >>
    ELSE FlattenList(country, Head(types).cards)
         \o FlattenTypes(country, Tail(types))

RECURSIVE FlattenCountries(_)
FlattenCountries(data) ==
    IF data = << >> THEN << >>
    ELSE FlattenTypes(Head(data).country, Head(data).debitcard)
         \o FlattenCountries(Tail(data))

\* [(display, country, card)] over countries, card types and cards, in order
flatten_cards(s) == FlattenCountries(s.test_data)

\* self.test_data[country]["customer_data"], or a KeyError
CustomerOf(s, country) ==
    LET hits == {i \in 1..Len(s.test_data) : s.test_data[i].country = country}
    IN IF hits = {} THEN [ok |-> FALSE, val |-> JNull]
       ELSE [ok |-> TRUE, val |-> s.test_data[CHOOSE i \in hits : TRUE].customer_data]

IndexInRange(idx, list) == 0 <= idx /\ idx < Len(list)

current_card_country_and_data(s, tab) ==
    LET idx == s.card_combo[tab]
        none == [raised |-> FALSE, some |-> FALSE, country |-> "", card |-> 0,
                 customer |-> JNull]
    IN IF ~IndexInRange(idx, s.flat_cards[tab]) THEN none
       ELSE LET e == s.flat_cards[tab][idx + 1]
                cust == CustomerOf(s, e.country)
            IN IF ~cust.ok THEN [none EXCEPT !.raised = TRUE]
               ELSE [raised |-> FALSE, some |-> TRUE, country |-> e.country,
                     card |-> e.card, customer |-> cust.val]

\* QLineEdit.setText on a card field: textEdited stays silent
SetCardField(s, tab, i, text) ==
    [s EXCEPT !.card_fields[tab][i] = text, !.last.formWrites = @ + 1]

\* card[k] as the str setText needs
HasStr(card, k) == Has(card, k) /\ Get(card, k).t = "str"

apply_card_to_form(s, tab, card) ==
    IF ~(HasStr(card, "card_number") /\ HasStr(card, "card_cvv")) THEN Raise(s)
    ELSE
      LET masked == s.privacy_mode_checkbox
          card_number == IF masked THEN mask_card_number(Get(card, "card_number").v)
                         ELSE Get(card, "card_number").v
          cvv == IF masked THEN mask_cvv(Get(card, "card_cvv").v)
                 ELSE Get(card, "card_cvv").v
          s1 == SetCardField(s, tab, 1, card_number)
      IN IF ~HasStr(card, "card_name") THEN Raise(s1)
         ELSE LET s2 == SetCardField(s1, tab, 2, Get(card, "card_name").v)
              IN IF ~HasStr(card, "card_due_date") THEN Raise(s2)
                 ELSE SetCardField(
                        SetCardField(s2, tab, 3, Get(card, "card_due_date").v),
                        tab, 4, cvv)

\* ------------------------------------------------------------------------
\* Payload builder and form <-> payload synchroniser of the card tabs
\* ------------------------------------------------------------------------
RECURSIVE Call(_, _, _)

\* self.key_edit.text() or "{integration_key}"
KeyOrPlaceholder(s) == IF s.key_edit # << >> THEN s.key_edit ELSE Placeholder

\* checkbox checked and the stripped text not empty
SoftDescriptorOn(s) ==
    s.soft_descriptor_checkbox /\ Strip(s.soft_descriptor_edit) # << >>

CustomerKeys ==
    {"default_amount", "currency_code", "name", "email", "birth_date", "country",
     "phone_number"}

\* build_payload / build_payload_3ds: the payload from the customer template
\* and the card, or a KeyError
build_payload(s, tab, card, customer) ==
    IF ~(\A k \in CustomerKeys : Has(customer, k)) THEN [ok |-> FALSE, val |-> JNull]
    ELSE
      LET base == [card_number |-> Get(card, "card_number"),
                   card_name |-> Get(card, "card_name"),
                   card_due_date |-> Get(card, "card_due_date"),
                   card_cvv |-> Get(card, "card_cvv"),
                   auto_capture |-> JBool(tab # "3ds"),
                   threeds_force |-> JBool(tab = "3ds")]
          cardobj == IF SoftDescriptorOn(s)
                     THEN Put(JObj(base), "soft_descriptor",
                              JStr(Strip(s.soft_descriptor_edit)))
                     ELSE JObj(base)
      IN [ok |-> TRUE,
          val |-> JObj([integration_key |-> JStr(KeyOrPlaceholder(s)),
                        operation |-> JStr(<<"r","e","q","u","e","s","t">>),
                        payment |-> JObj([amount_total |-> Get(customer, "default_amount"),
                                          currency_code |-> Get(customer, "currency_code"),
                                          name |-> Get(customer, "name"),
                                          email |-> Get(customer, "email"),
                                          birth_date |-> Get(customer, "birth_date"),
                                          country |-> Get(customer, "country"),
                                          phone_number |-> Get(customer, "phone_number"),
                                          card |-> cardobj])])]

\* payload["payment"]["card"] exists (no KeyError, no TypeError)
HasPaymentCard(payload) ==
    Has(payload, "payment") /\ Has(Get(payload, "payment"), "card")

PaymentCard(payload) == Get(Get(payload, "payment"), "card")

\* payload["payment"]["card"] = cardobj
PutPaymentCard(payload, cardobj) ==
    Put(payload, "payment", Put(Get(payload, "payment"), "card", cardobj))

\* dict.update
Update(d, e) == JObj(e.v @@ d.v)

\* OverlayCustom without the assignment of line 1178: the saved payload keeps its own key
OverlayCustomSavedKey(s, tab, custom, ui_card, customer) ==
    IF ~HasPaymentCard(custom) THEN build_payload(s, tab, ui_card, customer)
    ELSE IF ~IsObj(PaymentCard(custom)) THEN [ok |-> FALSE, val |-> JNull]
    ELSE
      LET c1 == Update(PaymentCard(custom), ui_card)
          c2 == IF SoftDescriptorOn(s)
                THEN Put(c1, "soft_descriptor", JStr(Strip(s.soft_descriptor_edit)))
                ELSE IF Has(c1, "soft_descriptor") THEN Del(c1, "soft_descriptor")
                ELSE c1
      IN [ok |-> TRUE, val |-> PutPaymentCard(custom, c2)]

\* OverlayCustom without the removal of lines 1183-1185: a saved soft_descriptor is kept
OverlayCustomSavedDescriptor(s, tab, custom, ui_card, customer) ==
    IF ~HasPaymentCard(custom) THEN build_payload(s, tab, ui_card, customer)
    ELSE IF ~IsObj(PaymentCard(custom)) THEN [ok |-> FALSE, val |-> JNull]
    ELSE
      LET c1 == Update(PaymentCard(custom), ui_card)
          c2 == IF SoftDescriptorOn(s)
                THEN Put(c1, "soft_descriptor", JStr(Strip(s.soft_descriptor_edit)))
                ELSE c1
          p1 == Put(PutPaymentCard(custom, c1), "integration_key",
                    JStr(KeyOrPlaceholder(s)))
      IN [ok |-> TRUE, val |-> PutPaymentCard(p1, c2)]

\* OverlayCustom that drops the saved payload and rebuilds from the form
OverlayCustomRebuilt(s, tab, custom, ui_card, customer) ==
    build_payload(s, tab, ui_card, customer)

\* The saved custom payload with the card block, the API key and the soft
\* descriptor overlaid; the rebuilt payload when the structure is unexpected;
\* an AttributeError when payment.card is not a dict.
OverlayCustom(s, tab, custom, ui_card, customer) ==
    IF ~HasPaymentCard(custom) THEN build_payload(s, tab, ui_card, customer)
    ELSE IF ~IsObj(PaymentCard(custom)) THEN [ok |-> FALSE, val |-> JNull]
    ELSE
      LET c1 == Update(PaymentCard(custom), ui_card)
          c2 == IF SoftDescriptorOn(s)
                THEN Put(c1, "soft_descriptor", JStr(Strip(s.soft_descriptor_edit)))
                ELSE IF Has(c1, "soft_descriptor") THEN Del(c1, "soft_descriptor")
                ELSE c1
          p1 == Put(PutPaymentCard(custom, c1), "integration_key",
                    JStr(KeyOrPlaceholder(s)))
      IN [ok |-> TRUE, val |-> PutPaymentCard(p1, c2)]

\* the local `payload` of update_payload_preview for this card
BuildCardPayload(s, tab, card, customer) ==
    LET ui_card == JObj([card_number |-> Get(card, "card_number"),
                         card_name |-> JStr(Strip(s.card_fields[tab][2])),
                         card_due_date |-> JStr(Strip(s.card_fields[tab][3])),
                         card_cvv |-> Get(card, "card_cvv")])
        custom == GetOr(card, CustomKey(tab), PyNone)
    IN IF Truthy(custom) THEN OverlayCustom(s, tab, custom, ui_card, customer)
       ELSE build_payload(s, tab, ui_card, customer)

\* the display version: masked card number, CVV and API key in privacy mode
DisplayPayload(s, tab, payload) ==
    IF ~s.privacy_mode_checkbox THEN payload
    ELSE
      LET c == Put(Put(PaymentCard(payload), "card_number",
                       JStr(Strip(s.card_fields[tab][1]))),
                   "card_cvv", JStr(Strip(s.card_fields[tab][4])))
          p == PutPaymentCard(payload, c)
      IN IF s.has_original /\ s.original_api_key # << >>
         THEN Put(p, "integration_key", JStr(mask_api_key(s.original_api_key)))
         ELSE p

\* the next statement of a method, skipped while an exception propagates
Then(s, method, a) == IF s.raised THEN s ELSE Call(method, s, a)

\* setPlainText on a payload editor: textChanged calls the connected slot
SetPayloadText(s, tab, text) ==
    Slot(Call(IF tab = "apm" THEN "on_payload_changed_apm" ELSE "on_payload_changed",
              [s EXCEPT !.payload_edit[tab] = text, !.last.viewWrites = @ + 1],
              <<tab>>))

\* _syncing = True; payload_edit*.set_json_text(payload); _syncing = False
WritePayloadView(s, tab, payload) ==
    LET written == SetPayloadText([s EXCEPT !.syncing = TRUE], tab,
                                  set_json_text(payload))
    IN [written EXCEPT !.syncing = FALSE]

\* the trace of a rebuild: the payload built and the controls it read
NoteBuilt(s, tab, card, payload) ==
    [s EXCEPT !.last.rebuilds = @ + 1,
              !.last.ranWhileSyncing = @ \/ s.syncing,
              !.last.builds =
                  Append(@, [tab |-> tab, payload |-> payload,
                             key_edit |-> s.key_edit,
                             sd_checked |-> s.soft_descriptor_checkbox,
                             sd_text |-> s.soft_descriptor_edit,
                             had_custom |-> Truthy(GetOr(card, CustomKey(tab), PyNone)),
                             custom |-> GetOr(card, CustomKey(tab), PyNone)])]

\* update_payload_preview*, from the built payload b on
PreviewPayload(s, tab, card, b) ==
    IF ~b.ok THEN Raise(s)
    ELSE WritePayloadView(NoteBuilt(s, tab, card, b.val), tab,
                          DisplayPayload(s, tab, b.val))

\* update_payload_preview*, from the current selection cur on
PreviewCard(s, tab, cur) ==
    IF cur.raised THEN Raise(s)
    ELSE IF ~cur.some THEN s
    ELSE IF ~(Has(s.heap[cur.card], "card_number") /\ Has(s.heap[cur.card], "card_cvv"))
    THEN Raise(s)
    ELSE PreviewPayload(s, tab, s.heap[cur.card],
                        BuildCardPayload(s, tab, s.heap[cur.card], cur.customer))

\* update_payload_preview / update_payload_preview_3ds
update_payload_preview(s, tab) ==
    IF s.syncing THEN s
    ELSE PreviewCard(s, tab, current_card_country_and_data(s, tab))

on_card_field_changed(s, tab) ==
    IF s.syncing THEN s ELSE Call("update_payload_preview", s, <<tab>>)

\* QLineEdit.setText on key_edit: textChanged fires when the text changes
SetKeyText(s, text) ==
    IF s.key_edit = text THEN s
    ELSE Slot(Call("on_api_key_changed",
                   [s EXCEPT !.key_edit = text, !.last.formWrites = @ + 1], << >>))

\* if not privacy_mode_checkbox.isChecked(): _original_api_key = key_edit.text()
KeepOriginalKey(s) ==
    IF s.privacy_mode_checkbox THEN s
    ELSE [s EXCEPT !.original_api_key = s.key_edit, !.has_original = TRUE]

on_api_key_changed(s) ==
    IF s.syncing THEN s
    ELSE Then(Call("update_payload_preview", KeepOriginalKey(s), <<"non3ds">>),
              "_persist_settings", << >>)

\* setText on soft_descriptor_edit: textChanged fires when the text changes
SetSoftDescriptorText(s, text) ==
    IF s.soft_descriptor_edit = text THEN s
    ELSE Slot(Call("on_soft_descriptor_changed",
                   [s EXCEPT !.soft_descriptor_edit = text,
                             !.last.formWrites = @ + 1], << >>))

\* setChecked on soft_descriptor_checkbox: toggled fires when the state changes
SetSoftDescriptorChecked(s, on) ==
    IF s.soft_descriptor_checkbox = on THEN s
    ELSE Slot(Call("on_soft_descriptor_changed",
                   [s EXCEPT !.soft_descriptor_checkbox = on,
                             !.last.formWrites = @ + 1], << >>))

on_soft_descriptor_changed(s) ==
    IF s.syncing THEN s
    ELSE Then(Call("update_payload_preview", s, <<"non3ds">>),
              "_persist_settings", << >>)

\* `"integration_key" in data` and `data["integration_key"]` for a truthy
\* JSON value: the key's value, its absence, or an uncaught TypeError
IntegrationKeyOf(data) ==
    CASE data.t = "obj" ->
           IF "integration_key" \in DOMAIN data.v
           THEN [raised |-> FALSE, present |-> TRUE, val |-> data.v["integration_key"]]
           ELSE [raised |-> FALSE, present |-> FALSE, val |-> JNull]
      [] data.t = "str" ->
           [raised |-> IsSubstring(IntegrationKeyText, data.v), present |-> FALSE,
            val |-> JNull]
      [] data.t = "list" ->
           [raised |-> \E i \in 1..Len(data.v) : data.v[i] = JStr(IntegrationKeyText),
            present |-> FALSE, val |-> JNull]
      [] OTHER -> [raised |-> TRUE, present |-> FALSE, val |-> JNull]

\* _syncing = True at the start of on_payload_changed*
BeginSync(s) ==
    [s EXCEPT !.last.formSyncs = @ + 1,
              !.last.ranWhileSyncing = @ \/ s.syncing,
              !.syncing = TRUE]

\* _syncing = False at the end of on_payload_changed*, when control gets there
EndSync(s) == IF s.raised THEN s ELSE [s EXCEPT !.syncing = FALSE]

\* the card-field part of on_payload_changed*: a KeyError or TypeError ends it
\* silently, the AttributeError of a payment.card that is no dict does not
SyncCardFields(s, tab, data) ==
    IF ~HasPaymentCard(data) THEN s
    ELSE IF ~IsObj(PaymentCard(data)) THEN Raise(s)
    ELSE SetCardField(SetCardField(SetCardField(SetCardField(s,
           tab, 1, Str(GetOr(PaymentCard(data), "card_number", JStr(<< >>)))),
           tab, 2, Str(GetOr(PaymentCard(data), "card_name", JStr(<< >>)))),
           tab, 3, Str(GetOr(PaymentCard(data), "card_due_date", JStr(<< >>)))),
           tab, 4, Str(GetOr(PaymentCard(data), "card_cvv", JStr(<< >>))))

\* the API-key part of on_payload_changed*
SyncKeyFromPayload(s, data) ==
    IF s.raised THEN s
    ELSE IF IntegrationKeyOf(data).raised THEN Raise(s)
    ELSE IF /\ IntegrationKeyOf(data).present
            /\ Truthy(IntegrationKeyOf(data).val)
            /\ IntegrationKeyOf(data).val # JStr(Placeholder)
    THEN SetKeyText(s, Str(IntegrationKeyOf(data).val))
    ELSE s

\* the soft-descriptor part of on_payload_changed*
SyncSoftDescriptor(s, data) ==
    IF s.raised \/ ~HasPaymentCard(data) THEN s
    ELSE IF Has(PaymentCard(data), "soft_descriptor")
    THEN SetSoftDescriptorChecked(
           SetSoftDescriptorText(s, Str(Get(PaymentCard(data), "soft_descriptor"))),
           TRUE)
    ELSE SetSoftDescriptorChecked(s, FALSE)

\* on_payload_changed*, from the parsed text on
\* on_payload_changed* without the `if not data: return` of lines 1326-1328
SyncFormUnchecked(s, tab, data) ==
    EndSync(SyncSoftDescriptor(SyncKeyFromPayload(
        SyncCardFields(BeginSync(s), tab, data), data), data))

SyncFormFromPayload(s, tab, data) ==
    IF ~Truthy(data) THEN s
    ELSE EndSync(SyncSoftDescriptor(
                   SyncKeyFromPayload(SyncCardFields(BeginSync(s), tab, data), data),
                   data))

\* on_payload_changed / on_payload_changed_3ds
on_payload_changed(s, tab) ==
    IF s.syncing THEN s
    ELSE SyncFormFromPayload(s, tab, get_json_data(s.payload_edit[tab]))

on_card_changed(s, tab, idx) ==
    IF ~IndexInRange(idx, s.flat_cards[tab]) THEN s
    ELSE Then(Call("apply_card_to_form", s, <<tab, s.flat_cards[tab][idx + 1].card>>),
              "update_payload_preview", <<tab>>)

\* apply_card_to_form* of the current card of a tab, when there is one
RefreshCardForm(s, tab) ==
    IF ~IndexInRange(s.card_combo[tab], s.flat_cards[tab]) THEN s
    ELSE Call("apply_card_to_form", s,
              <<tab, s.flat_cards[tab][s.card_combo[tab] + 1].card>>)

\* _original_api_key = key_edit.text()
StoreOriginalKey(s) ==
    [s EXCEPT !.original_api_key = s.key_edit, !.has_original = TRUE]

\* the API-key part of on_privacy_mode_changed
MaskOrRestoreKey(s) ==
    IF s.privacy_mode_checkbox
    THEN LET o == IF ~s.has_original \/ s.original_api_key = << >>
                  THEN s.key_edit ELSE s.original_api_key
         IN SetKeyText([s EXCEPT !.original_api_key = o, !.has_original = TRUE],
                       mask_api_key(o))
    ELSE StoreOriginalKey(IF s.has_original /\ s.original_api_key # << >>
                          THEN SetKeyText(s, s.original_api_key) ELSE s)

on_privacy_mode_changed(s) ==
    IF s.syncing THEN s
    ELSE Then(Then(Then(Then(Then(
           MaskOrRestoreKey([s EXCEPT !.read_only = s.privacy_mode_checkbox]),
           "RefreshCardForm", <<"non3ds">>),
           "RefreshCardForm", <<"3ds">>),
           "update_payload_preview", <<"non3ds">>),
           "update_payload_preview", <<"3ds">>),
           "_persist_settings", << >>)

\* ------------------------------------------------------------------------
\* APM tab
\* ------------------------------------------------------------------------
on_apm_field_changed(s) == Call("update_payload_preview_apm", s, << >>)

\* setText / clear on an APM form field: textChanged fires when the text changes
SetApmField(s, name, text) ==
    IF s.apm_form_fields[name] = text THEN s
    ELSE Slot(Call("on_apm_field_changed",
                   [s EXCEPT !.apm_form_fields[name] = text,
                             !.last.formWrites = @ + 1], << >>))

\* current_apm_data: the selected entry; with no selection the method returns
\* five values that its callers unpack into four names (a ValueError)
current_apm_data(s) ==
    IF ~IndexInRange(s.apm_combo, s.apm_flat_list)
    THEN [raised |-> TRUE, entry |-> [country |-> "", payment_method |-> "",
                                      profile_name |-> "", apm_data |-> JNull]]
    ELSE [raised |-> FALSE, entry |-> s.apm_flat_list[s.apm_combo + 1]]

\* {objectName: text.strip()} of the fields whose stripped text is not empty
FormData(s) ==
    LET names == {ApmFieldNames[i] : i \in 1..Len(ApmFieldNames)}
        filled == {n \in names : Strip(s.apm_form_fields[n]) # << >>}
    IN Table([n \in filled |-> JStr(Strip(s.apm_form_fields[n]))], filled)

SeqToSet(q) == {q[i] : i \in 1..Len(q)}

\* build_payload_apm: the profile's payload with the API key of the UI and the
\* form values, or an exception
build_payload_apm(s, apm_data, form_data) ==
    IF ~IsObj(apm_data) THEN [ok |-> FALSE, val |-> JNull]
    ELSE
      LET p0 == GetOr(apm_data, "payload", JObj(<< >>))
      IN IF ~IsObj(p0) THEN [ok |-> FALSE, val |-> JNull]
         ELSE
           LET p1 == Put(p0, "integration_key", JStr(Strip(s.key_edit)))
           IN IF Has(p1, "payment")
              THEN LET payment_data == Get(p1, "payment")
                       ks == SeqToSet(ApmNestedKeys) \cap DOMAIN form_data
                   IN IF ks = {} THEN [ok |-> TRUE, val |-> p1]
                      ELSE IF ~IsObj(payment_data) THEN [ok |-> FALSE, val |-> JNull]
                      ELSE [ok |-> TRUE,
                            val |-> Put(p1, "payment",
                                        Update(payment_data,
                                               JObj(Table(form_data, ks))))]
              ELSE LET ks == {k \in SeqToSet(ApmFlatKeys) :
                                 ApmFlatField(k) \in DOMAIN form_data}
                   IN [ok |-> TRUE,
                       val |-> Update(p1, JObj(Table([k \in ks |-> form_data[ApmFlatField(k)]], ks)))]

\* update_payload_preview_apm, from the built payload b on
PreviewApmPayload(s, b) ==
    IF ~b.ok THEN Raise(s)
    ELSE WritePayloadView([s EXCEPT !.last.rebuilds = @ + 1,
                                    !.last.ranWhileSyncing = @ \/ s.syncing],
                          "apm", b.val)

\* update_payload_preview_apm, from the current selection cur on
PreviewApm(s, cur) ==
    IF cur.raised THEN Raise(s)
    ELSE IF ~Truthy(cur.entry.apm_data) THEN s
    ELSE PreviewApmPayload(s, build_payload_apm(s, cur.entry.apm_data, FormData(s)))

\* update_payload_preview_apm without the _syncing guard of lines 2373-2374
PreviewApmWhileSyncing(s) == PreviewApm(s, current_apm_data(s))

update_payload_preview_apm(s) ==
    IF s.syncing THEN s ELSE PreviewApm(s, current_apm_data(s))

\* for field in self.apm_form_fields: field.clear()
RECURSIVE ClearApmFields(_, _)
ClearApmFields(s, names) ==
    IF names = << >> THEN s
    ELSE ClearApmFields(SetApmField(s, Head(names), << >>), Tail(names))

\* for payload_key, field_name in field_mapping.items():
\*     if payload_key in src: field.setText(str(src[payload_key]))   (src a dict)
RECURSIVE FillApmFields(_, _, _, _)
FillApmFields(s, src, keys, flat) ==
    IF keys = << >> THEN s
    ELSE FillApmFields(
           IF Has(src, Head(keys))
           THEN SetApmField(s, IF flat THEN ApmFlatField(Head(keys)) ELSE Head(keys),
                            Str(Get(src, Head(keys))))
           ELSE s,
           src, Tail(keys), flat)

\* apply_apm_to_form after the fields are cleared. A payment block that is a
\* str or a list holds none of the mapped keys in the runs; one that is a
\* number makes `in` raise.
FillFromProfile(s, payload) ==
    IF ~IsObj(payload) THEN Raise(s)
    ELSE IF ~Truthy(GetOr(payload, "payment", JObj(<< >>)))
    THEN FillApmFields(s, payload, ApmFlatKeys, TRUE)
    ELSE IF IsObj(Get(payload, "payment"))
    THEN FillApmFields(s, Get(payload, "payment"), ApmNestedKeys, FALSE)
    ELSE IF Get(payload, "payment").t \in {"str", "list"} THEN s
    ELSE Raise(s)

apply_apm_to_form(s, apm_data) ==
    IF ~IsObj(apm_data) THEN Raise(s)
    ELSE FillFromProfile(ClearApmFields(s, ApmFieldNames),
                         GetOr(apm_data, "payload", JObj(<< >>)))

on_apm_changed(s, idx) ==
    IF ~IndexInRange(idx, s.apm_flat_list) THEN s
    ELSE Then(Call("apply_apm_to_form", s, <<idx>>),
              "update_payload_preview_apm", << >>)

\* the form-field part of on_payload_changed_apm: a KeyError or TypeError ends
\* it silently
SyncApmFields(s, data) ==
    IF ~IsObj(data) THEN s
    ELSE IF ~Has(data, "payment") THEN FillApmFields(s, data, ApmFlatKeys, TRUE)
    ELSE IF IsObj(Get(data, "payment"))
    THEN FillApmFields(s, Get(data, "payment"), ApmNestedKeys, FALSE)
    ELSE s

\* on_payload_changed_apm, from the parsed text on
SyncApmFormFromPayload(s, data) ==
    IF ~Truthy(data) THEN s
    ELSE EndSync(SyncKeyFromPayload(SyncApmFields(BeginSync(s), data), data))

on_payload_changed_apm(s) ==
    IF s.syncing THEN s
    ELSE SyncApmFormFromPayload(s, get_json_data(s.payload_edit["apm"]))

\* ------------------------------------------------------------------------
\* Request dispatch
\* ------------------------------------------------------------------------
\* str.rstrip('/')
RECURSIVE RStripSlash(_)
RStripSlash(s) ==
    IF s # << >> /\ s[Len(s)] = "/" THEN RStripSlash(SubSeq(s, 1, Len(s) - 1)) ELSE s

\* QThread + APICallWorker(url, payload_data, headers), started
StartWorker(s, tab, url, payload_data, ptp) ==
    [s EXCEPT !.threads[tab] =
                  Append(@, [url |-> url, payload_data |-> payload_data,
                             ptp |-> ptp, attempts |-> 0, state |-> "started",
                             privacy |-> s.privacy_mode_checkbox,
                             resp |-> NoReply]),
              !.last.dispatched = TRUE]

\* the cURL preview of run_test / run_test_3ds (hidden in privacy mode) and of
\* run_test_apm, then the waiting line
ShowCurl(s, tab, payload_data, hidden) ==
    IF hidden
    THEN appendPlainText(appendPlainText(s, tab, Block("hidden", NoInfo, JNull)),
                         tab, Block("waiting", NoInfo, JNull))
    ELSE appendPlainText(appendPlainText(appendPlainText(s, tab,
                             Block("curl label", NoInfo, JNull)),
                             tab, Block("curl", NoInfo, payload_data)),
                         tab, Block("waiting", NoInfo, JNull))

\* self._latest_request_info* = request_info
SetRequestInfo(s, tab, info) == [s EXCEPT !.latest_request_info[tab] = info]

\* authenticate_3ds_btn_3ds.setEnabled(False) of run_test_3ds
DisableAuthenticate(s, tab) ==
    IF tab = "3ds" THEN [s EXCEPT !.authenticate_3ds_btn = FALSE] ELSE s

\* run_test* without run_btn.setEnabled(False)
KeepRunButton(s, tab) == s

\* run_btn.setEnabled(False) / test_btn_apm.setEnabled(False)
DisableRunButton(s, tab) == [s EXCEPT !.run_btn[tab] = FALSE]

\* run_test / run_test_3ds
run_test(s, tab) ==
    LET cur == current_card_country_and_data(s, tab)
    IN IF cur.raised THEN Raise(s)
       ELSE IF ~cur.some THEN Notice(s, "No card")
       ELSE IF s.ptp_combo[tab] = << >> THEN Notice(s, "No PTP")
       ELSE IF s.key_edit = << >> THEN Notice(s, "No key")
       ELSE IF s.payload_edit[tab].k # "json" \/ s.payload_edit[tab].v = PyNone
       THEN Notice(s, "Invalid JSON")
       ELSE
         LET payload_data == get_json_data(s.payload_edit[tab])
             card == s.heap[cur.card]
             sent ==
               IF s.privacy_mode_checkbox
               THEN (IF ~(HasPaymentCard(payload_data) /\ IsObj(PaymentCard(payload_data))
                          /\ Has(card, "card_number") /\ Has(card, "card_cvv"))
                     THEN [ok |-> FALSE, val |-> JNull]
                     ELSE LET c == Put(Put(PaymentCard(payload_data), "card_number",
                                           Get(card, "card_number")),
                                       "card_cvv", Get(card, "card_cvv"))
                              p == PutPaymentCard(payload_data, c)
                          IN [ok |-> TRUE,
                              val |-> IF s.has_original /\ s.original_api_key # << >>
                                      THEN Put(p, "integration_key",
                                               JStr(s.original_api_key))
                                      ELSE p])
               ELSE (IF ~IsObj(payload_data) THEN [ok |-> FALSE, val |-> JNull]
                     ELSE [ok |-> TRUE,
                           val |-> Put(payload_data, "integration_key",
                                       JStr(KeyOrPlaceholder(s)))])
         IN IF ~sent.ok THEN Raise(s)
            ELSE IF ~Has(card, "description") THEN Raise(DisableRunButton(s, tab))
            ELSE StartWorker(
                   SetRequestInfo(
                     ShowCurl(DisableAuthenticate(DisableRunButton(s, tab), tab),
                              tab, sent.val, s.privacy_mode_checkbox),
                     tab, RequestInfo(RStripSlash(s.base_url_edit) \o WsDirect,
                                      s.ptp_combo[tab],
                                      Str(Get(card, "description")))),
                   tab, RStripSlash(s.base_url_edit) \o WsDirect,
                   sent.val, s.ptp_combo[tab])

\* run_test_apm
run_test_apm(s) ==
    LET cur == current_apm_data(s)
    IN IF cur.raised THEN Raise(s)
       ELSE IF ~Truthy(cur.entry.apm_data) THEN Notice(s, "No APM Selected")
       ELSE
         LET b == build_payload_apm(s, cur.entry.apm_data, FormData(s))
             base_url == RStripSlash(Strip(s.base_url_edit))
             ptp == Strip(s.ptp_combo["apm"])
         IN IF ~b.ok THEN Raise(s)
            ELSE IF base_url = << >> \/ Strip(s.key_edit) = << >> \/ ptp = << >>
            THEN Notice(s, "Missing Configuration")
            ELSE StartWorker(
                   SetRequestInfo(
                     ShowCurl(DisableRunButton(s, "apm"), "apm", b.val, FALSE),
                     "apm", RequestInfo(base_url \o WsDirect, ptp,
                                        <<cur.entry.country, cur.entry.payment_method,
                                          cur.entry.profile_name>>)),
                   "apm", base_url \o WsDirect, b.val, ptp)

\* run_btn*.setEnabled(True) of every tab
EnableRunButtons(s, tab) ==
    [s EXCEPT !.run_btn = ("non3ds" :> TRUE) @@ ("3ds" :> TRUE) @@ ("apm" :> TRUE)]

\* run_btn.setEnabled(True) / run_btn_3ds / test_btn_apm
EnableRunButton(s, tab) == [s EXCEPT !.run_btn[tab] = TRUE]

\* the end of _handle_api_response* and _handle_api_error*: the Run button is
\* enabled again and the settings are persisted
handle_api_result(s, tab) ==
    persist_settings(EnableRunButton(s, tab))

\* text.startswith("http")
StartsWithHttp(text) ==
    Len(text) >= 4 /\ SubSeq(text, 1, 4) = <<"h", "t", "t", "p">>

\* the redirect URL _check_for_3ds_url_3ds accepts, or << >>: a value in the
\* path that is not a dict, or a truthy URL that is not a str, raises
\* AttributeError, which the method catches
ThreedsUrl(response_data) ==
    IF ~IsObj(response_data) THEN << >>
    ELSE LET payment == GetOr(response_data, "payment", JObj(<< >>))
         IN IF ~IsObj(payment) THEN << >>
            ELSE LET threedsecure == GetOr(payment, "threedsecure", JObj(<< >>))
                 IN IF ~IsObj(threedsecure) THEN << >>
                    ELSE IF ~Has(threedsecure, "threeds_redirect_url") THEN << >>
                    ELSE IF Get(threedsecure, "threeds_redirect_url").t # "str"
                    THEN << >>
                    ELSE IF StartsWithHttp(Get(threedsecure, "threeds_redirect_url").v)
                    THEN Get(threedsecure, "threeds_redirect_url").v
                    ELSE << >>

\* _check_for_3ds_url_3ds, given the URL it accepts
SetThreedsUrl(s, url) ==
    [s EXCEPT !.authenticate_3ds_btn = url # << >>, !.current_3ds_url = url]

check_for_3ds_url_3ds(s, response_data) == SetThreedsUrl(s, ThreedsUrl(response_data))

\* the body part of _handle_api_response*: resp.json() shown with set_json_text,
\* or the text of a body that is not JSON appended; the 3DS tab then sets its
\* Authenticate button
ShowBody(s, tab, resp) ==
    IF resp.json
    THEN LET shown == setPlainText(appendPlainText(s, tab,
                                        Block("body label", NoInfo, JNull)),
                                   tab, resp.data)
         IN IF tab = "3ds" THEN check_for_3ds_url_3ds(shown, resp.data) ELSE shown
    ELSE LET shown == appendPlainText(appendPlainText(s, tab,
                                          Block("text label", NoInfo, JNull)),
                                      tab, Block("text", NoInfo, JStr(resp.text)))
         IN IF tab = "3ds" THEN [shown EXCEPT !.authenticate_3ds_btn = FALSE]
            ELSE shown

\* the request header, then the status line
ShowStatus(s, tab, resp) ==
    appendPlainText(appendPlainText(s, tab,
                        Block("info", s.latest_request_info[tab], JNull)),
                    tab, Block("status", NoInfo, JNum(resp.status)))

\* _handle_api_response / _handle_api_response_3ds / _handle_api_response_apm
handle_api_response(s, tab, resp) ==
    Call("_handle_api_result", ShowBody(ShowStatus(s, tab, resp), tab, resp), <<tab>>)

\* _handle_api_error / _handle_api_error_3ds / _handle_api_error_apm
handle_api_error(s, tab, error_msg) ==
    Call("_handle_api_result",
         appendPlainText(appendPlainText(s, tab,
                             Block("info", s.latest_request_info[tab], JNull)),
                         tab, Block("error", NoInfo, JStr(error_msg))),
         <<tab>>)

\* clear_response / clear_response_3ds / clear_response_apm
clear_response(s, tab) ==
    IF tab = "3ds" THEN [ClearView(s, tab) EXCEPT !.authenticate_3ds_btn = FALSE]
    ELSE ClearView(s, tab)

\* self._3ds_url_3ds, read by authenticate_3ds_in_browser_3ds: no statement of
\* the program assigns this attribute, so hasattr is False; << >> stands for
\* the missing attribute
Attr3dsUrl(s) == << >>

\* authenticate_3ds_in_browser_3ds
authenticate_3ds_in_browser_3ds(s) ==
    IF Attr3dsUrl(s) # << >>
    THEN [s EXCEPT !.last.opened = Append(@, Attr3dsUrl(s))]
    ELSE Notice(s, "No 3DS URL")

\* ------------------------------------------------------------------------
\* Construction (TesterWindow.__init__)
\* ------------------------------------------------------------------------
\* setCurrentIndex, or the index change of clear() / addItems(), on a card combo:
\* currentIndexChanged calls on_card_changed*, then _persist_settings
SetCardIndex(s, tab, idx) ==
    IF s.card_combo[tab] = idx THEN s
    ELSE Slot(Call("_persist_settings",
                   Slot(Call("on_card_changed",
                             [s EXCEPT !.card_combo[tab] = idx], <<tab, idx>>)),
                   << >>))

\* populate_card_combo*, after clear(): addItems selects the first card
SelectFirstCard(s, tab) ==
    IF s.flat_cards[tab] = << >> THEN s
    ELSE Call("apply_card_to_form", SetCardIndex(s, tab, 0),
              <<tab, s.flat_cards[tab][1].card>>)

\* populate_card_combo / populate_card_combo_3ds
populate_card_combo(s, tab) ==
    SelectFirstCard(SetCardIndex([s EXCEPT !.flat_cards[tab] = flatten_cards(s)],
                                 tab, -1),
                    tab)

\* the PTP a combo shows after addItems(ptp_list) and the restore of the last one
InitialPtp(last_ptp) ==
    IF PtpList = << >> THEN << >>
    ELSE IF last_ptp \in SeqToSet(PtpList) THEN last_ptp
    ELSE PtpList[1]

\* create_non3ds_tab / create_3ds_tab, after the combo is populated
RestoreCardTab(s, tab, last_card_index, last_ptp) ==
    IF s.raised THEN s
    ELSE [(IF IndexInRange(last_card_index, s.flat_cards[tab])
           THEN SetCardIndex(s, tab, last_card_index) ELSE s)
          EXCEPT !.ptp_combo[tab] = InitialPtp(last_ptp)]

\* create_non3ds_tab / create_3ds_tab
create_card_tab(s, tab, last_card_index, last_ptp) ==
    RestoreCardTab(Call("populate_card_combo", s, <<tab>>), tab,
                   last_card_index, last_ptp)

\* flatten_apms(): the profiles of self.apm_data with their country, payment
\* method and profile name, in dict order
flatten_apms(s) == s.self_apm_data

\* populate_apm_combo, after the combo is filled: the first profile is shown
SelectFirstApm(s) ==
    IF s.apm_flat_list = << >> THEN s
    ELSE Call("apply_apm_to_form", [s EXCEPT !.apm_combo = 0], <<0>>)

\* ptp_combo_apm after addItems(ptp_list) and the restore of the last PTP
RestoreApmPtp(s, last_ptp) ==
    IF s.raised THEN s ELSE [s EXCEPT !.ptp_combo["apm"] = InitialPtp(last_ptp)]

\* create_apms_tab with populate_apm_combo (on_apm_changed is connected after it)
create_apms_tab(s, last_ptp) ==
    RestoreApmPtp(SelectFirstApm([s EXCEPT !.apm_flat_list = flatten_apms(s)]), last_ptp)

\* a message box shown when control gets to it
NoticeIfOk(s, title) == IF s.raised THEN s ELSE Notice(s, title)

\* ------------------------------------------------------------------------
\* The catalogs on disk
\* ------------------------------------------------------------------------
\* create_dummy_test_data() / create_dummy_apm_data(), abridged to the
\* countries, cards and profiles of the runs
create_dummy_test_data == DumpCatalog(CardsCatalog, CardsHeap)

create_dummy_apm_data == ApmCatalog

\* load_json that returns the seed catalog of a missing file without writing it
load_json_unwritten(fs, writable, path) ==
    IF fs[path].k = "absent"
    THEN IF path \in {CardsPath, ApmsPath}
         THEN [raised |-> "",
               doc |-> IF path = CardsPath THEN create_dummy_test_data
                       ELSE create_dummy_apm_data,
               files |-> fs]
         ELSE [raised |-> "FileNotFoundError", doc |-> << >>, files |-> fs]
    ELSE IF fs[path].k = "json"
    THEN [raised |-> "", doc |-> fs[path].v, files |-> fs]
    ELSE [raised |-> "JSONDecodeError", doc |-> << >>, files |-> fs]

\* load_json(path): the outcome (the document returned or the exception
\* raised) and the files afterwards
load_json(fs, writable, path) ==
    IF fs[path].k = "absent"
    THEN IF path \in {CardsPath, ApmsPath}
         THEN LET dummy_data == IF path = CardsPath THEN create_dummy_test_data
                                ELSE create_dummy_apm_data
              IN IF writable
                 THEN [raised |-> "", doc |-> dummy_data,
                       files |-> (path :> TextOf(dummy_data)) @@ fs]
                 ELSE [raised |-> "OSError", doc |-> << >>, files |-> fs]
         ELSE [raised |-> "FileNotFoundError", doc |-> << >>, files |-> fs]
    ELSE IF fs[path].k = "json"
    THEN [raised |-> "", doc |-> fs[path].v, files |-> fs]
    ELSE [raised |-> "JSONDecodeError", doc |-> << >>, files |-> fs]

\* the ids next+1 .. next+n, in order
RECURSIVE NewIds(_, _)
NewIds(next, n) ==
    IF n = 0 THEN << >> ELSE <<next + 1>> \o NewIds(next + 1, n - 1)

\* the card objects of a document, in file order
RECURSIVE TypesCards(_)
TypesCards(types) ==
    IF types = << >> THEN << >>
    ELSE Head(types).cards \o TypesCards(Tail(types))

RECURSIVE CatalogCards(_)
CatalogCards(doc) ==
    IF doc = << >> THEN << >>
    ELSE TypesCards(Head(doc).debitcard) \o CatalogCards(Tail(doc))

\* json.load builds new objects: the card lists of a document as references
\* to objects placed after the first `next` of the heap
RECURSIVE LoadTypes(_, _)
LoadTypes(types, next) ==
    IF types = << >> THEN << >>
    ELSE <<[card_type |-> Head(types).card_type,
            cards |-> NewIds(next, Len(Head(types).cards))]>>
         \o LoadTypes(Tail(types), next + Len(Head(types).cards))

RECURSIVE LoadCatalog(_, _)
LoadCatalog(doc, next) ==
    IF doc = << >> THEN << >>
    ELSE <<[country |-> Head(doc).country,
            customer_data |-> Head(doc).customer_data,
            debitcard |-> LoadTypes(Head(doc).debitcard, next)]>>
         \o LoadCatalog(Tail(doc), next + Len(TypesCards(Head(doc).debitcard)))

\* self.test_data = <the loaded document>
SetTestData(s, doc) ==
    [s EXCEPT !.test_data = LoadCatalog(doc, Len(s.heap)),
              !.heap = s.heap \o CatalogCards(doc)]

\* the places (country, card type, position) at which test_data holds the
\* object `target`
CardPaths(data, target) ==
    UNION {UNION {{<<i, j, k>> :
                     k \in {n \in 1..Len(data[i].debitcard[j].cards) :
                              data[i].debitcard[j].cards[n] = target}} :
                  j \in 1..Len(data[i].debitcard)} :
           i \in 1..Len(data)}

\* _find_card_path(target_card): the place, or << >> for (None, None, None)
find_card_path(s, target_card) ==
    LET found == CardPaths(s.test_data, target_card)
    IN IF found = {} THEN << >> ELSE CHOOSE path \in found : TRUE

\* _write_cards_file()
write_cards_file(s) ==
    IF s.disk_ok
    THEN [s EXCEPT !.files[CardsPath] = TextOf(DumpCatalog(s.test_data, s.heap))]
    ELSE Notice([s EXCEPT !.last.failedWrites = @ + 1], "Save error")

\* the dict of a new card, from the form and the payload editor of a tab
NewCard(s, tab, desc) ==
    LET payload_data == get_json_data(s.payload_edit[tab])
        fields == [card_number |-> JStr(Strip(s.card_fields[tab][1])),
                   card_name |-> JStr(Strip(s.card_fields[tab][2])),
                   card_due_date |-> JStr(Strip(s.card_fields[tab][3])),
                   card_cvv |-> JStr(Strip(s.card_fields[tab][4])),
                   description |-> JStr(Strip(desc))]
    IN IF payload_data = PyNone THEN JObj(fields)
       ELSE JObj((CustomKey(tab) :> payload_data) @@ fields)

\* test_data[country]["debitcard"][card_type].append(new_card)
AppendCard(s, path, new_card) ==
    [s EXCEPT !.heap = Append(@, new_card),
              !.test_data[path[1]].debitcard[path[2]].cards =
                  Append(@, Len(s.heap) + 1)]

\* populate_card_combo*, then the last card of the combo is selected
SelectLastCard(s, tab) ==
    IF s.raised THEN s ELSE SetCardIndex(s, tab, Len(s.flat_cards[tab]) - 1)

\* save_new_card / save_new_card_3ds; desc and ok are what the description
\* dialog returns
save_new_card(s, tab, desc, ok) ==
    LET idx == s.card_combo[tab]
    IN IF ~IndexInRange(idx, s.flat_cards[tab]) THEN Notice(s, "No reference card")
       ELSE IF find_card_path(s, s.flat_cards[tab][idx + 1].card) = << >>
       THEN Notice(s, "Error")
       ELSE IF ~ok \/ Strip(desc) = << >> THEN s
       ELSE SelectLastCard(
              Call("populate_card_combo",
                   NoticeIfOk(Call("_write_cards_file",
                                   AppendCard(s, find_card_path(s, s.flat_cards[tab][idx + 1].card),
                                              NewCard(s, tab, desc)),
                                   << >>),
                              "Card added"),
                   <<tab>>),
              tab)

\* the card object after card[...] = <form field> and the payload is stored
SavedCard(s, tab, card) ==
    LET payload_data == get_json_data(s.payload_edit[tab])
        fields == ("card_number" :> JStr(Strip(s.card_fields[tab][1])))
                  @@ ("card_name" :> JStr(Strip(s.card_fields[tab][2])))
                  @@ ("card_due_date" :> JStr(Strip(s.card_fields[tab][3])))
                  @@ ("card_cvv" :> JStr(Strip(s.card_fields[tab][4])))
    IN IF payload_data = PyNone THEN JObj(fields @@ card.v)
       ELSE JObj((CustomKey(tab) :> payload_data) @@ fields @@ card.v)

\* save_existing_card / save_existing_card_3ds
save_existing_card(s, tab) ==
    LET idx == s.card_combo[tab]
    IN IF ~IndexInRange(idx, s.flat_cards[tab]) THEN Notice(s, "No card selected")
       ELSE LET id == s.flat_cards[tab][idx + 1].card
                warned == IF get_json_data(s.payload_edit[tab]) = PyNone
                          THEN Notice(s, "Invalid JSON") ELSE s
            IN Call("populate_card_combo",
                    NoticeIfOk(Call("_write_cards_file",
                                    [warned EXCEPT !.heap[id] = SavedCard(s, tab, s.heap[id])],
                                    << >>),
                               "Card saved"),
                    <<tab>>)

\* del test_data[country]["debitcard"][card_type][card_idx], and the card
\* type with it when its list becomes empty
RemoveCard(s, path) ==
    LET types == s.test_data[path[1]].debitcard
        cards == types[path[2]].cards
        rest  == SubSeq(cards, 1, path[3] - 1) \o SubSeq(cards, path[3] + 1, Len(cards))
    IN [s EXCEPT !.test_data[path[1]].debitcard =
            IF rest = << >>
            THEN SubSeq(types, 1, path[2] - 1) \o SubSeq(types, path[2] + 1, Len(types))
            ELSE [types EXCEPT ![path[2]].cards = rest]]

\* delete_current_card / delete_current_card_3ds; yes is the answer to the
\* confirmation
delete_current_card(s, tab, yes) ==
    LET idx == s.card_combo[tab]
    IN IF ~IndexInRange(idx, s.flat_cards[tab]) THEN Notice(s, "No card selected")
       ELSE IF ~yes THEN s
       ELSE IF find_card_path(s, s.flat_cards[tab][idx + 1].card) = << >>
       THEN Notice(s, "Error")
       ELSE Call("populate_card_combo",
                 NoticeIfOk(Call("_write_cards_file",
                                 RemoveCard(s, find_card_path(s, s.flat_cards[tab][idx + 1].card)),
                                 << >>),
                            "Card deleted"),
                 <<tab>>)

\* reload_cards_from_disk / reload_cards_from_disk_3ds
reload_cards_from_disk(s, tab) ==
    LET r == load_json(s.files, s.disk_ok, CardsPath)
    IN IF r.raised # "" THEN Notice(s, "Load error")
       ELSE NoticeIfOk(Call("populate_card_combo",
                            SetTestData([s EXCEPT !.files = r.files], r.doc), <<tab>>),
                       "Reloaded")

\* the positions of the profile apm_data[country][payment_method][profile_name]
ApmPlaces(list, entry) ==
    {i \in 1..Len(list) : /\ list[i].country = entry.country
                           /\ list[i].payment_method = entry.payment_method
                           /\ list[i].profile_name = entry.profile_name}

\* <profile dict>["payload"] = payload, at every position of a list that
\* holds the profile
RECURSIVE PutApmPayload(_, _, _)
PutApmPayload(list, places, payload) ==
    IF places = {} THEN list
    ELSE LET i == CHOOSE n \in places : TRUE
         IN PutApmPayload([list EXCEPT ![i].apm_data = Put(@, "payload", payload)],
                          places \ {i}, payload)

\* self.apm_data[country][payment_method][profile_name]["payload"] = payload:
\* the profile dict is the object the flattened list holds too
SetApmPayload(s, entry, payload) ==
    [s EXCEPT !.self_apm_data =
                  PutApmPayload(@, ApmPlaces(s.self_apm_data, entry), payload),
              !.apm_flat_list =
                  PutApmPayload(@, ApmPlaces(s.apm_flat_list, entry), payload)]

\* _write_apms_file(): the file holds json.dump(self.apm_data), or open raises
\* OSError
write_apms_file(s) ==
    IF s.disk_ok THEN [s EXCEPT !.files[ApmsPath] = TextOf(s.self_apm_data)]
    ELSE Raise([s EXCEPT !.last.failedWrites = @ + 1])

\* `except Exception` of save_existing_apm and reload_apms_from_disk: a
\* critical message box with this title
Caught(s, title) == IF s.raised THEN Notice([s EXCEPT !.raised = FALSE], title) ELSE s

\* populate_apm_combo once the tab exists: clear() leaves no selection,
\* addItems() selects the first profile and currentIndexChanged calls
\* on_apm_changed; then apply_apm_to_form of the first profile, and the PTP
\* combo is filled and set from self.cfg
ShowFirstApm(s) ==
    IF s.apm_flat_list = << >> THEN s
    ELSE Call("apply_apm_to_form",
              Slot(Call("on_apm_changed", [s EXCEPT !.apm_combo = 0], <<0>>)), <<0>>)

populate_apm_combo(s) ==
    RestoreApmPtp(ShowFirstApm([s EXCEPT !.apm_flat_list = flatten_apms(s),
                                         !.apm_combo = -1]),
                  s.self_cfg.last_ptp_apm)

\* save_existing_apm
save_existing_apm(s) ==
    LET cur == current_apm_data(s)
    IN IF cur.raised THEN Raise(s)
       ELSE IF ~Truthy(cur.entry.apm_data) THEN Notice(s, "No APM Selected")
       ELSE IF ApmPlaces(s.self_apm_data, cur.entry) = {}
       THEN Notice(s, "Save Error")
       ELSE Caught(NoticeIfOk(Call("_write_apms_file",
                                   SetApmPayload(s, cur.entry,
                                                 get_json_data(s.payload_edit["apm"])),
                                   << >>),
                              "APM Saved"),
                   "Save Error")

\* del self.apm_data[country][payment_method][profile_name], and the emptied
\* dicts above it
RemoveApm(s, entry) ==
    LET list == s.self_apm_data
        i == CHOOSE n \in ApmPlaces(list, entry) : TRUE
    IN [s EXCEPT !.self_apm_data = SubSeq(list, 1, i - 1) \o SubSeq(list, i + 1, Len(list))]

\* delete_current_apm; yes is the answer to the confirmation
delete_current_apm(s, yes) ==
    LET cur == current_apm_data(s)
    IN IF cur.raised THEN Raise(s)
       ELSE IF ~Truthy(cur.entry.apm_data) THEN Notice(s, "No APM Selected")
       ELSE IF ~yes THEN s
       ELSE IF ApmPlaces(s.self_apm_data, cur.entry) = {} THEN Raise(s)
       ELSE NoticeIfOk(Then(Call("_write_apms_file", RemoveApm(s, cur.entry), << >>),
                            "populate_apm_combo", << >>),
                       "APM Deleted")

\* reload_apms_from_disk, given what load_json returns
ReloadedApms(s, r) ==
    IF r.raised # "" THEN Notice(s, "Reload Error")
    ELSE Caught(NoticeIfOk(Call("populate_apm_combo",
                                [s EXCEPT !.self_apm_data = r.doc, !.files = r.files],
                                << >>),
                           "APMs Reloaded"),
                "Reload Error")

reload_apms_from_disk(s) == ReloadedApms(s, load_json(s.files, s.disk_ok, ApmsPath))

\* self.<method>(...), and the slot a signal is connected to: the methods of
\* the window that call one another, by name, with the arguments a
Call(method, s, a) ==
    CASE method = "update_payload_preview" -> update_payload_preview(s, a[1])
      [] method = "update_payload_preview_apm" -> update_payload_preview_apm(s)
      [] method = "on_payload_changed" -> on_payload_changed(s, a[1])
      [] method = "on_payload_changed_apm" -> on_payload_changed_apm(s)
      [] method = "on_card_field_changed" -> on_card_field_changed(s, a[1])
      [] method = "on_api_key_changed" -> on_api_key_changed(s)
      [] method = "on_soft_descriptor_changed" -> on_soft_descriptor_changed(s)
      [] method = "on_privacy_mode_changed" -> on_privacy_mode_changed(s)
      [] method = "on_card_changed" -> on_card_changed(s, a[1], a[2])
      [] method = "apply_card_to_form" -> apply_card_to_form(s, a[1], s.heap[a[2]])
      [] method = "RefreshCardForm" -> RefreshCardForm(s, a[1])
      [] method = "on_apm_field_changed" -> on_apm_field_changed(s)
      [] method = "on_apm_changed" -> on_apm_changed(s, a[1])
      [] method = "apply_apm_to_form" ->
             apply_apm_to_form(s, s.apm_flat_list[a[1] + 1].apm_data)
      [] method = "populate_card_combo" -> populate_card_combo(s, a[1])
      [] method = "create_card_tab" -> create_card_tab(s, a[1], a[2], a[3])
      [] method = "create_apms_tab" -> create_apms_tab(s, a[1])
      [] method = "run_test" -> run_test(s, a[1])
      [] method = "run_test_apm" -> run_test_apm(s)
      [] method = "_handle_api_result" -> handle_api_result(s, a[1])
      [] method = "_handle_api_response" -> handle_api_response(s, a[1], a[2])
      [] method = "_handle_api_error" -> handle_api_error(s, a[1], a[2])
      [] method = "clear_response" -> clear_response(s, a[1])
      [] method = "authenticate_3ds_in_browser_3ds" ->
             authenticate_3ds_in_browser_3ds(s)
      [] method = "_persist_settings" -> persist_settings(s)
      [] method = "_write_cards_file" -> write_cards_file(s)
      [] method = "save_new_card" -> save_new_card(s, a[1], a[2], a[3])
      [] method = "save_existing_card" -> save_existing_card(s, a[1])
      [] method = "delete_current_card" -> delete_current_card(s, a[1], a[2])
      [] method = "reload_cards_from_disk" -> reload_cards_from_disk(s, a[1])
      [] method = "_write_apms_file" -> write_apms_file(s)
      [] method = "populate_apm_combo" -> populate_apm_combo(s)
      [] method = "save_existing_apm" -> save_existing_apm(s)
      [] method = "delete_current_apm" -> delete_current_apm(s, a[1])
      [] method = "reload_apms_from_disk" -> reload_apms_from_disk(s)

\* _original_api_key = key_edit.text(), then the key field is masked in
\* privacy mode
MaskKeyAtStart(s) ==
    IF s.raised THEN s
    ELSE IF s.privacy_mode_checkbox
    THEN SetKeyText(StoreOriginalKey(s), mask_api_key(s.key_edit))
    ELSE StoreOriginalKey(s)

\* the attributes __init__ sets before it creates the tabs: the loaded
\* catalog, the widgets of the config row filled from cfg
NewWindow(cfg, cards, data, fs, writable) ==
        [heap |-> cards, test_data |-> data,
         flat_cards |-> ("non3ds" :> << >>) @@ ("3ds" :> << >>),
         card_combo |-> ("non3ds" :> -1) @@ ("3ds" :> -1),
         card_fields |-> ("non3ds" :> << << >>, << >>, << >>, << >> >>)
                         @@ ("3ds" :> << << >>, << >>, << >>, << >> >>),
         key_edit |-> cfg.integration_key,
         original_api_key |-> << >>, has_original |-> FALSE,
         soft_descriptor_edit |-> cfg.soft_descriptor,
         soft_descriptor_checkbox |-> cfg.use_soft_descriptor,
         privacy_mode_checkbox |-> cfg.privacy_mode,
         read_only |-> cfg.privacy_mode,
         base_url_edit |-> cfg.base_url,
         payload_edit |-> ("non3ds" :> NoText) @@ ("3ds" :> NoText) @@ ("apm" :> NoText),
         syncing |-> FALSE,
         ptp_combo |-> ("non3ds" :> << >>) @@ ("3ds" :> << >>) @@ ("apm" :> << >>),
         run_btn |-> ("non3ds" :> TRUE) @@ ("3ds" :> TRUE) @@ ("apm" :> TRUE),
         apm_flat_list |-> << >>, apm_combo |-> -1,
         apm_form_fields |-> Table([n \in SeqToSet(ApmFieldNames) |-> << >>],
                                   SeqToSet(ApmFieldNames)),
         self_apm_data |-> ApmCatalog,
         self_cfg |-> cfg,
         response_edit |-> ("non3ds" :> << >>) @@ ("3ds" :> << >>) @@ ("apm" :> << >>),
         latest_request_info |-> ("non3ds" :> NoInfo) @@ ("3ds" :> NoInfo)
                                 @@ ("apm" :> NoInfo),
         authenticate_3ds_btn |-> FALSE,
         current_3ds_url |-> << >>,
         threads |-> ("non3ds" :> << >>) @@ ("3ds" :> << >>) @@ ("apm" :> << >>),
         config_file |-> cfg,
         files |-> fs, disk_ok |-> writable,
         last |-> FreshLast("__init__", ""),
         raised |-> FALSE]

\* the rest of __init__: the three tabs, the first preview, the key mask
CreateTabs(s, cfg) ==
    MaskKeyAtStart(Then(Then(Then(Call("create_card_tab", s,
        <<"non3ds", cfg.last_card_index, cfg.last_ptp>>),
        "create_card_tab", <<"3ds", cfg.last_card_index_3ds, cfg.last_ptp_3ds>>),
        "create_apms_tab", <<cfg.last_ptp_apm>>),
        "update_payload_preview", <<"non3ds">>))

\* the window after __init__ with the loaded config cfg and the data files of
\* the runs
WindowInit(cfg) ==
    CreateTabs(NewWindow(cfg, CardsHeap, CardsCatalog, FilesOfRuns, TRUE), cfg)

\* the defaults of the cfg.get(key, default) calls of __init__ and the tabs
DefaultConfig ==
    [integration_key |-> << >>, base_url |-> BaseUrl,
     soft_descriptor |-> << >>, use_soft_descriptor |-> FALSE,
     privacy_mode |-> FALSE, last_ptp |-> << >>, last_ptp_3ds |-> << >>,
     last_ptp_apm |-> << >>, last_card_index |-> 0,
     last_card_index_3ds |-> 0]

\* the config files of the runs: none yet, a saved key with the soft descriptor
\* in use, and a saved key with privacy mode on
Configs ==
    LET fresh == DefaultConfig
    IN { fresh,
         [fresh EXCEPT !.integration_key = KeyA, !.soft_descriptor = SdNew,
                       !.use_soft_descriptor = TRUE, !.last_card_index = 1,
                       !.last_ptp_3ds = PtpB],
         [fresh EXCEPT !.integration_key = KeyA, !.privacy_mode = TRUE,
                       !.last_ptp_apm = PtpC] }

\* the variables take the attributes of the record r
Holds(r) ==
    /\ heap = r.heap
    /\ test_data = r.test_data
    /\ flat_cards = r.flat_cards
    /\ card_combo = r.card_combo
    /\ card_fields = r.card_fields
    /\ key_edit = r.key_edit
    /\ original_api_key = r.original_api_key
    /\ soft_descriptor_edit = r.soft_descriptor_edit
    /\ soft_descriptor_checkbox = r.soft_descriptor_checkbox
    /\ privacy_mode_checkbox = r.privacy_mode_checkbox
    /\ read_only = r.read_only
    /\ base_url_edit = r.base_url_edit
    /\ payload_edit = r.payload_edit
    /\ syncing = r.syncing
    /\ ptp_combo = r.ptp_combo
    /\ run_btn = r.run_btn
    /\ apm_flat_list = r.apm_flat_list
    /\ apm_combo = r.apm_combo
    /\ apm_form_fields = r.apm_form_fields
    /\ self_apm_data = r.self_apm_data
    /\ self_cfg = r.self_cfg
    /\ response_edit = r.response_edit
    /\ latest_request_info = r.latest_request_info
    /\ authenticate_3ds_btn = r.authenticate_3ds_btn
    /\ current_3ds_url = r.current_3ds_url
    /\ threads = r.threads
    /\ config_file = r.config_file
    /\ files = r.files
    /\ disk_ok = r.disk_ok
    /\ last = r.last

Init ==
    /\ \E cfg \in Configs :
          /\ Holds(Slot(WindowInit(cfg)))
          /\ live_key = cfg.integration_key
    /\ nops = 0

\* the attributes of the record r become the next state
Becomes(r) ==
    /\ heap' = r.heap
    /\ test_data' = r.test_data
    /\ flat_cards' = r.flat_cards
    /\ card_combo' = r.card_combo
    /\ card_fields' = r.card_fields
    /\ key_edit' = r.key_edit
    /\ original_api_key' = r.original_api_key
    /\ soft_descriptor_edit' = r.soft_descriptor_edit
    /\ soft_descriptor_checkbox' = r.soft_descriptor_checkbox
    /\ privacy_mode_checkbox' = r.privacy_mode_checkbox
    /\ read_only' = r.read_only
    /\ base_url_edit' = r.base_url_edit
    /\ payload_edit' = r.payload_edit
    /\ syncing' = r.syncing
    /\ ptp_combo' = r.ptp_combo
    /\ run_btn' = r.run_btn
    /\ apm_flat_list' = r.apm_flat_list
    /\ apm_combo' = r.apm_combo
    /\ apm_form_fields' = r.apm_form_fields
    /\ self_apm_data' = r.self_apm_data
    /\ self_cfg' = r.self_cfg
    /\ response_edit' = r.response_edit
    /\ latest_request_info' = r.latest_request_info
    /\ authenticate_3ds_btn' = r.authenticate_3ds_btn
    /\ current_3ds_url' = r.current_3ds_url
    /\ threads' = r.threads
    /\ config_file' = r.config_file
    /\ files' = r.files
    /\ disk_ok' = r.disk_ok
    /\ last' = r.last
    /\ live_key' = IF r.privacy_mode_checkbox THEN live_key ELSE r.key_edit

\* the window when the user's event `op` arrives
Begin(op, tab) == [Self EXCEPT !.last = FreshLast(op, tab)]

\* ------------------------------------------------------------------------
\* The user's operations
\* ------------------------------------------------------------------------
\* what the user types into a card field (1 number, 2 name, 3 expiry, 4 CVV)
CardFieldInputs(i) ==
    CASE i = 1 -> {Num42}
      [] i = 2 -> {NamePad}
      [] i = 3 -> {<<"0","1","/","3","0">>}
      [] OTHER -> {<<"0","0","0">>}

\* The user edits a card field: textEdited -> on_card_field_changed*.
EditCardField(tab, i, text) ==
    /\ nops < MaxOps
    /\ i \in {1, 4} => ~read_only
    /\ card_fields[tab][i] # text
    /\ Becomes(Slot(Call("on_card_field_changed",
           [Begin("on_card_field_changed", tab) EXCEPT !.card_fields[tab][i] = text],
           <<tab>>)))
    /\ nops' = nops + 1

KeyInputs == {<< >>, KeyB, KeyShort}

\* The user edits the Integration Key field: textChanged -> on_api_key_changed.
EditKey(text) ==
    /\ nops < MaxOps
    /\ ~read_only
    /\ key_edit # text
    /\ Becomes(Slot(Call("on_api_key_changed",
           [Begin("on_api_key_changed", "") EXCEPT !.key_edit = text], << >>)))
    /\ nops' = nops + 1

SoftDescriptorInputs == {<< >>, SdPad}

\* The user edits the soft descriptor text.
EditSoftDescriptor(text) ==
    /\ nops < MaxOps
    /\ soft_descriptor_edit # text
    /\ Becomes(Slot(Call("on_soft_descriptor_changed",
           [Begin("on_soft_descriptor_changed", "") EXCEPT
               !.soft_descriptor_edit = text], << >>)))
    /\ nops' = nops + 1

\* The user clicks the "Use Soft Descriptor" checkbox.
ToggleSoftDescriptor ==
    /\ nops < MaxOps
    /\ Becomes(Slot(Call("on_soft_descriptor_changed",
           [Begin("on_soft_descriptor_changed", "") EXCEPT
               !.soft_descriptor_checkbox = ~soft_descriptor_checkbox], << >>)))
    /\ nops' = nops + 1

\* The user clicks the "Privacy Mode" checkbox.
TogglePrivacy ==
    /\ nops < MaxOps
    /\ Becomes(Slot(Call("on_privacy_mode_changed",
           [Begin("on_privacy_mode_changed", "") EXCEPT
               !.privacy_mode_checkbox = ~privacy_mode_checkbox], << >>)))
    /\ nops' = nops + 1

\* The user picks another card in a card combo.
SelectCard(tab, idx) ==
    /\ nops < MaxOps
    /\ IndexInRange(idx, flat_cards[tab])
    /\ idx # card_combo[tab]
    /\ Becomes(SetCardIndex(Begin("on_card_changed", tab), tab, idx))
    /\ nops' = nops + 1

\* The user picks another APM profile: currentIndexChanged -> on_apm_changed.
SelectApm(idx) ==
    /\ nops < MaxOps
    /\ IndexInRange(idx, apm_flat_list)
    /\ idx # apm_combo
    /\ Becomes(Slot(Call("on_apm_changed",
           [Begin("on_apm_changed", "apm") EXCEPT !.apm_combo = idx], <<idx>>)))
    /\ nops' = nops + 1

\* The user edits an APM form field: textChanged -> on_apm_field_changed.
EditApmField(name, text) ==
    /\ nops < MaxOps
    /\ apm_form_fields[name] # text
    /\ Becomes(Slot(Call("on_apm_field_changed",
           [Begin("on_apm_field_changed", "apm") EXCEPT
               !.apm_form_fields[name] = text], << >>)))
    /\ nops' = nops + 1

\* JSON values the user leaves in a payload view that are not request objects
OddShapes ==
    { JNum(7), JStr(<<"x">>), JList(<<JNum(1)>>),
      JObj([payment |-> JStr(<<"x">>)]),
      JObj([payment |-> JObj([card |-> JStr(<<"x">>)])]) }

\* hand edits of the payload a view shows: another integration_key, the
\* soft_descriptor added or deleted, the CVV retyped as a number
HandEdits(tab) ==
    LET base == get_json_data(payload_edit[tab])
    IN IF ~IsObj(base) THEN {}
       ELSE {Put(base, "integration_key", JStr(KeyB))}
            \cup (IF ~(HasPaymentCard(base) /\ IsObj(PaymentCard(base))) THEN {}
                  ELSE LET c == PaymentCard(base)
                       IN { PutPaymentCard(base,
                                IF Has(c, "soft_descriptor")
                                THEN Del(c, "soft_descriptor")
                                ELSE Put(c, "soft_descriptor", JStr(SdNew))),
                            PutPaymentCard(base, Put(c, "card_cvv", JNum(321))) })

\* the texts a user edit can leave in the payload view of a tab
UserTexts(tab) ==
    {BadText, NoText} \cup {TextOf(v) : v \in OddShapes \cup HandEdits(tab)}

\* The user edits a payload JSON view: textChanged -> on_payload_changed*.
EditPayload(tab) ==
    /\ nops < MaxOps
    /\ tab \in CardTabs => ~read_only
    /\ \E text \in UserTexts(tab) :
         /\ payload_edit[tab] # text
         /\ Becomes(Slot(Call(
                IF tab = "apm" THEN "on_payload_changed_apm" ELSE "on_payload_changed",
                [Begin("on_payload_changed", tab) EXCEPT !.payload_edit[tab] = text],
                <<tab>>)))
    /\ nops' = nops + 1

\* The user clicks the Run Test button of a tab.
RunTest(tab) ==
    /\ nops < MaxOps
    /\ run_btn[tab]
    /\ Becomes(Slot(Call(IF tab = "apm" THEN "run_test_apm" ELSE "run_test",
                          Begin("run_test", tab), <<tab>>)))
    /\ nops' = nops + 1

\* ------------------------------------------------------------------------
\* The worker thread and its notifications
\* ------------------------------------------------------------------------
\* the redirect URLs of the servers of the runs
UrlHttp == <<"h", "t", "t", "p", "s", ":", "/", "/", "a">>
UrlFtp  == <<"f", "t", "p", ":", "/", "/", "a">>

\* a JSON response body whose payment.threedsecure.threeds_redirect_url is url
BodyWithUrl(url) ==
    JObj([status |-> JStr(<<"S">>),
          payment |-> JObj([threedsecure |-> JObj([threeds_redirect_url |-> url])])])

\* the responses of the servers of the runs: JSON without a redirect URL
\* (ReplyOk, the one response of the runs that are about the requests), with
\* an http URL, with a URL of another scheme, with a URL that is a number,
\* with a payment that is a string, a JSON list, and a body that is not JSON
ReplyOk == Reply(200, TRUE, JObj([status |-> JStr(<<"S">>)]), << >>)

ReplyBad == Reply(502, FALSE, JNull, <<"B", "a", "d">>)

Replies ==
    { ReplyOk,
      Reply(200, TRUE, BodyWithUrl(JStr(UrlHttp)), << >>),
      Reply(200, TRUE, BodyWithUrl(JStr(UrlFtp)), << >>),
      Reply(200, TRUE, BodyWithUrl(JNum(5)), << >>),
      Reply(400, TRUE, JObj([payment |-> JStr(<<"x">>)]), << >>),
      Reply(200, TRUE, JList(<< >>), << >>),
      ReplyBad }

\* the responses a tab's requests get in the runs: the redirect URL matters to
\* the 3DS tab only
RepliesFor(tab) == IF tab = "3ds" THEN Replies ELSE {ReplyOk, ReplyBad}

\* str(exc) of the RequestException of the runs
ErrorMsg == <<"t", "i", "m", "e", "o", "u", "t">>

\* str.encode("latin-1"), as http.client.putheader applies it to a header value,
\* succeeds
Latin1(text) == \A i \in 1..Len(text) : text[i] # "U+2713"

\* the ways the requests.post of a worker can end: a response, a
\* RequestException, or the UnicodeEncodeError of a PTP header value that is
\* not Latin-1, which `except RequestException` does not catch
PostOutcomes(w) == IF Latin1(w.ptp) THEN {"finished", "error"} ELSE {"raised"}

\* APICallWorker.run: one requests.post, then finished or error is emitted,
\* or the exception leaves run() and nothing is emitted
WorkerRun(tab, outcome, resp) ==
    /\ threads[tab] # << >>
    /\ threads[tab][1].state = "started"
    /\ outcome \in PostOutcomes(threads[tab][1])
    /\ outcome = "finished" \/ resp = NoReply
    /\ outcome = "finished" => resp # NoReply
    /\ threads' = [threads EXCEPT ![tab][1].attempts = @ + 1,
                                  ![tab][1].state = outcome,
                                  ![tab][1].resp = resp]
    /\ UNCHANGED <<heap, test_data, flat_cards, card_combo, card_fields, key_edit,
                   original_api_key, soft_descriptor_edit, soft_descriptor_checkbox,
                   privacy_mode_checkbox, read_only, base_url_edit, payload_edit,
                   syncing, ptp_combo, run_btn, apm_flat_list, apm_combo,
                   apm_form_fields, self_apm_data, self_cfg, response_edit, latest_request_info,
                   authenticate_3ds_btn, current_3ds_url, config_file, files,
                   disk_ok, nops, live_key, last>>

\* The GUI thread handles the worker's finished signal: _handle_api_response*.
HandleApiResponse(tab) ==
    /\ threads[tab] # << >>
    /\ threads[tab][1].state = "finished"
    /\ Becomes(Slot(Call("_handle_api_response",
           [Begin("_handle_api_response", tab)
                EXCEPT !.threads[tab] = Tail(@),
                       !.last = [resp |-> threads[tab][1].resp] @@ @],
           <<tab, threads[tab][1].resp>>)))
    /\ UNCHANGED nops

\* The GUI thread handles the worker's error signal: _handle_api_error*.
HandleApiError(tab) ==
    /\ threads[tab] # << >>
    /\ threads[tab][1].state = "error"
    /\ Becomes(Slot(Call("_handle_api_error",
           [Begin("_handle_api_error", tab) EXCEPT !.threads[tab] = Tail(@)],
           <<tab, ErrorMsg>>)))
    /\ UNCHANGED nops

Next ==
    \/ \E tab \in CardTabs, i \in 1..4 :
         \E text \in CardFieldInputs(i) : EditCardField(tab, i, text)
    \/ \E text \in KeyInputs : EditKey(text)
    \/ \E text \in SoftDescriptorInputs : EditSoftDescriptor(text)
    \/ ToggleSoftDescriptor
    \/ TogglePrivacy
    \/ \E tab \in CardTabs, idx \in 0..2 : SelectCard(tab, idx)
    \/ \E idx \in 0..1 : SelectApm(idx)
    \/ \E name \in {"name", "amount_total"} :
         \E text \in {<< >>, <<"9">>} : EditApmField(name, text)
    \/ \E tab \in Tabs : EditPayload(tab)
    \/ \E tab \in Tabs : RunTest(tab)
    \/ \E tab \in Tabs, outcome \in {"finished", "error", "raised"} :
         \E resp \in {ReplyOk, NoReply} : WorkerRun(tab, outcome, resp)
    \/ \E tab \in Tabs : HandleApiResponse(tab)
    \/ \E tab \in Tabs : HandleApiError(tab)

Spec == Init /\ [][Next]_vars

\* ------------------------------------------------------------------------
\* Properties
\* ------------------------------------------------------------------------
\* the body handed to the worker by the last Run Test of a tab
SentBody(tab) == threads[tab][Len(threads[tab])].payload_data

\* the last handler was a Run Test of this tab that started a worker
JustSent(tab) == last.op = "run_test" /\ last.tab = tab /\ last.dispatched

\* the card object the combo of a tab selects
SelectedCard(tab) == heap[flat_cards[tab][card_combo[tab] + 1].card]

\* the payment.card object of a payload, or the empty object
CardBlock(p) ==
    IF HasPaymentCard(p) /\ IsObj(PaymentCard(p)) THEN PaymentCard(p) ELSE JObj(<< >>)

C2_PrivacyRunSendsOriginals ==
    \A tab \in CardTabs :
        (JustSent(tab) /\ privacy_mode_checkbox /\ live_key # << >>) =>
            /\ GetOr(CardBlock(SentBody(tab)), "card_number", JNull)
                 = Get(SelectedCard(tab), "card_number")
            /\ GetOr(CardBlock(SentBody(tab)), "card_cvv", JNull)
                 = Get(SelectedCard(tab), "card_cvv")
            /\ GetOr(SentBody(tab), "integration_key", JNull) = JStr(live_key)

\* C3: the body the APM tab's Run Test hands to the worker carries the user's
\* unmasked API key, with privacy mode on or off.
C3_ApmRunSendsRealKey ==
    JustSent("apm") =>
        GetOr(SentBody("apm"), "integration_key", JNull) = JStr(Strip(live_key))

\* C4: a payload rebuilt for a card has payment.card.soft_descriptor exactly
\* when the checkbox is checked and the trimmed text is not empty, and its
\* value is then the trimmed text.
C4_SoftDescriptorIffEnabled ==
    \A i \in 1..Len(last.builds) :
        LET b == last.builds[i]
            on == b.sd_checked /\ Strip(b.sd_text) # << >>
        IN /\ Has(CardBlock(b.payload), "soft_descriptor") <=> on
           /\ on => Get(CardBlock(b.payload), "soft_descriptor") = JStr(Strip(b.sd_text))

\* the checkbox was switched off and a card with a saved soft_descriptor rebuilt
C4_Witness ==
    /\ last.op = "on_soft_descriptor_changed"
    /\ ~soft_descriptor_checkbox
    /\ \E i \in 1..Len(last.builds) :
         /\ last.builds[i].had_custom
         /\ ~last.builds[i].sd_checked
         /\ HasPaymentCard(last.builds[i].payload)

\* C5: the body a card tab's Run Test sends has payment.card.soft_descriptor
\* exactly when the checkbox is checked with non-empty text at that moment.
C5_SentDescriptorMatchesToggle ==
    \A tab \in CardTabs :
        JustSent(tab) =>
            (Has(CardBlock(SentBody(tab)), "soft_descriptor") <=> SoftDescriptorOn(Self))

\* C6: with privacy mode off, the payload a field edit writes to the JSON view,
\* parsed and its payment.card fields extracted as on_payload_changed extracts
\* them, gives back the four form fields.
C6_FormPayloadFormRoundTrip ==
    \A tab \in CardTabs :
        (/\ last.op = "on_card_field_changed" /\ last.tab = tab
         /\ last.viewWrites = 1 /\ ~privacy_mode_checkbox) =>
            \A i \in 1..4 :
                Str(GetOr(CardBlock(get_json_data(payload_edit[tab])), CardKeys[i],
                          JStr(<< >>)))
                    = card_fields[tab][i]

\* C7: every handler of a payload-view edit and every field-edit rebuild ends
\* with the syncing flag false.
C7_SyncReturnsToIdle ==
    last.op \in {"on_payload_changed", "on_card_field_changed", "on_apm_field_changed"}
        => ~syncing

\* C8: no synchronisation body runs while the syncing flag is set; a payload-view
\* edit rewrites no payload view, a field edit rewrites no form field, and
\* either runs at most one reconciliation.
C8_NoFeedbackLoop ==
    /\ ~last.ranWhileSyncing
    /\ last.op = "on_payload_changed" =>
         /\ last.viewWrites = 0
         /\ last.rebuilds = 0
         /\ last.formSyncs <= 1
    /\ last.op \in {"on_card_field_changed", "on_apm_field_changed"} =>
         /\ last.formWrites = 0
         /\ last.formSyncs = 0
         /\ last.rebuilds <= 1

\* a payload-view edit ran one synchronisation that rewrote form controls
C8_Witness ==
    /\ last.op = "on_payload_changed"
    /\ last.formSyncs = 1
    /\ last.formWrites >= 2
    /\ ~syncing

\* C9: an edit that leaves unparsable or empty text in a payload view changes
\* no card or APM form field, nor the API-key field, the soft-descriptor text
\* and checkbox, or the syncing flag.
C9_UnparsableIsNoOp ==
    [][ (/\ nops' = nops + 1
         /\ last'.op = "on_payload_changed"
         /\ payload_edit'[last'.tab] \in {BadText, NoText}) =>
            /\ card_fields' = card_fields
            /\ apm_form_fields' = apm_form_fields
            /\ key_edit' = key_edit
            /\ soft_descriptor_edit' = soft_descriptor_edit
            /\ soft_descriptor_checkbox' = soft_descriptor_checkbox
            /\ syncing' = syncing ]_vars

\* a payload view was just left with unparsable or empty text
C9_Witness ==
    /\ last.op = "on_payload_changed"
    /\ payload_edit[last.tab] \in {BadText, NoText}
    /\ last.formSyncs = 0

\* C10: a tab has at most one worker; while it has one its Run button is
\* disabled, and the worker makes one attempt: none before it ran, one after.
C10_OneRequestPerTab ==
    \A tab \in Tabs :
        /\ Len(threads[tab]) <= 1
        /\ threads[tab] # << >> =>
             /\ ~run_btn[tab]
             /\ threads[tab][1].attempts = (IF threads[tab][1].state = "started" THEN 0 ELSE 1)

\* two tabs have a request in flight, one of them failed and not yet handled
C10_Witness ==
    \E t1, t2 \in Tabs :
        /\ t1 # t2
        /\ threads[t1] # << >> /\ threads[t2] # << >>
        /\ threads[t1][1].state = "error" /\ threads[t1][1].attempts = 1
        /\ ~run_btn[t1] /\ ~run_btn[t2]

\* C11: every request whose HTTP call has ended has produced one notification,
\* finished or error, so that its handler re-enables the tab's Run button.
C11_EveryCallNotifies ==
    \A tab \in Tabs :
        \A i \in 1..Len(threads[tab]) :
            threads[tab][i].attempts = 1 =>
                threads[tab][i].state \in {"finished", "error"}

\* the selection, the PTP or the key of a tab is missing, or its payload editor
\* holds text that is not valid JSON
InputMissing(tab) ==
    \/ IF tab = "apm" THEN ~IndexInRange(apm_combo, apm_flat_list)
       ELSE ~IndexInRange(card_combo[tab], flat_cards[tab])
    \/ ptp_combo[tab] = << >>
    \/ key_edit = << >>
    \/ payload_edit[tab].k # "json"

\* C12: a Run Test with the selection, the PTP or the key missing, or with
\* invalid JSON in the tab's payload editor, starts no worker, leaves the Run
\* button enabled and shows a notice.
C12_RunTestAbortsOnMissingInput ==
    \A tab \in Tabs :
        (last.op = "run_test" /\ last.tab = tab /\ InputMissing(tab)) =>
            /\ ~last.dispatched
            /\ threads[tab] = << >>
            /\ run_btn[tab]
            /\ last.notices # {}

\* ------------------------------------------------------------------------
\* The masking functions on their own
\* ------------------------------------------------------------------------
\* the window of a first start, in which the runs of the single functions
\* are placed
Parked == Slot(WindowInit(CHOOSE cfg \in Configs : cfg.integration_key = << >>))

\* the texts of at most n characters, digits and asterisks
RECURSIVE Texts(_)
Texts(n) ==
    IF n = 0 THEN {<< >>}
    ELSE Texts(n - 1) \cup {Append(x, c) : x \in Texts(n - 1), c \in {"4", "*"}}

\* a text is in the key field, nothing is masked yet
InitMask ==
    /\ \E text \in Texts(MaxMaskLen) :
         Holds([Parked EXCEPT !.key_edit = text, !.last = FreshLast("text", "")])
    /\ live_key = << >>
    /\ nops = 0

\* the three masking functions are applied to the text
MaskText ==
    /\ last.op = "text"
    /\ last' = [op |-> "mask", tab |-> "",
                card_number |-> mask_card_number(key_edit),
                cvv |-> mask_cvv(key_edit),
                api_key |-> mask_api_key(key_edit)]
    /\ UNCHANGED <<heap, test_data, flat_cards, card_combo, card_fields, key_edit,
                   original_api_key, soft_descriptor_edit, soft_descriptor_checkbox,
                   privacy_mode_checkbox, read_only, base_url_edit, payload_edit,
                   syncing, ptp_combo, run_btn, apm_flat_list, apm_combo,
                   apm_form_fields, self_apm_data, self_cfg, response_edit, latest_request_info,
                   authenticate_3ds_btn, current_3ds_url, threads, config_file,
                   files, disk_ok, nops, live_key>>

NextMask == MaskText

SpecMask == InitMask /\ [][NextMask]_vars

\* C13: the masked card number keeps the first 6 characters and stars the
\* rest (unchanged up to length 6), the masked CVV is all stars, the masked key
\* keeps the first 4 and last 4 characters and stars the rest (unchanged below
\* length 8); each result is as long as the input and masking it again
\* changes nothing.
C13_MaskingRules ==
    last.op = "mask" =>
        /\ Len(last.card_number) = Len(key_edit)
        /\ \A i \in 1..Len(key_edit) :
             last.card_number[i] = (IF i <= 6 THEN key_edit[i] ELSE "*")
        /\ Len(key_edit) <= 6 => last.card_number = key_edit
        /\ Len(last.cvv) = Len(key_edit)
        /\ \A i \in 1..Len(key_edit) : last.cvv[i] = "*"
        /\ Len(last.api_key) = Len(key_edit)
        /\ \A i \in 1..Len(key_edit) :
             last.api_key[i] = (IF i <= 4 \/ i > Len(key_edit) - 4 THEN key_edit[i]
                                ELSE "*")
        /\ Len(key_edit) < 8 => last.api_key = key_edit
        /\ mask_card_number(last.card_number) = last.card_number
        /\ mask_cvv(last.cvv) = last.cvv
        /\ mask_api_key(last.api_key) = last.api_key

\* a text of nine characters was masked: its fifth and seventh are replaced
C13_Witness ==
    /\ last.op = "mask"
    /\ Len(key_edit) = 9
    /\ key_edit[5] = "4" /\ last.api_key[5] = "*"
    /\ key_edit[7] = "4" /\ last.card_number[7] = "*"
    /\ key_edit[4] = "*" /\ last.api_key[4] = "*"

\* C14: with privacy mode on, the JSON view of each card tab shows the selected
\* card's masked number and masked CVV and, for a key of 8 characters or more,
\* the masked API key, never the unmasked values.
C14_PrivacyViewsMasked ==
    \A tab \in CardTabs :
        (/\ privacy_mode_checkbox
         /\ IndexInRange(card_combo[tab], flat_cards[tab])
         /\ Len(live_key) >= 8
         /\ payload_edit[tab].k = "json") =>
            /\ GetOr(CardBlock(payload_edit[tab].v), "card_number", JNull)
                 = JStr(mask_card_number(Str(Get(SelectedCard(tab), "card_number"))))
            /\ GetOr(CardBlock(payload_edit[tab].v), "card_cvv", JNull)
                 = JStr(mask_cvv(Str(Get(SelectedCard(tab), "card_cvv"))))
            /\ GetOr(payload_edit[tab].v, "integration_key", JNull)
                 = JStr(mask_api_key(live_key))

\* a payload without the parts a Run Test may replace: the top-level
\* integration_key and, in privacy mode, payment.card's number and CVV
WithoutReplaced(p) ==
    LET q == IF Has(p, "integration_key") THEN Del(p, "integration_key") ELSE p
    IN IF privacy_mode_checkbox /\ HasPaymentCard(q) /\ IsObj(PaymentCard(q))
       THEN PutPaymentCard(q, JObj(Table(PaymentCard(q).v,
                (DOMAIN PaymentCard(q).v) \ {"card_number", "card_cvv"})))
       ELSE q

\* C15: in every tab the body Run Test hands to the worker is the JSON shown in
\* the tab's payload editor, hand-edits included, up to the top-level
\* integration_key and, in privacy mode, the card number and CVV.
C15_RunSendsEditorJson ==
    \A tab \in Tabs :
        (JustSent(tab) /\ payload_edit[tab].k = "json") =>
            WithoutReplaced(SentBody(tab)) = WithoutReplaced(payload_edit[tab].v)

\* ------------------------------------------------------------------------
\* The card catalog: its buttons, the disk and the settings file
\* ------------------------------------------------------------------------
\* the window when a catalog button of a card tab is clicked; the trace keeps
\* what the click found: the number of cards the catalog flattens to, whether a card was
\* selected and, if so, the selected object and its country
BeginStore(op, tab) ==
    LET selected == IndexInRange(card_combo[tab], flat_cards[tab])
    IN [Self EXCEPT !.last =
            [before |-> Len(flatten_cards(Self)), selected |-> selected,
             ref |-> IF selected THEN flat_cards[tab][card_combo[tab] + 1].card ELSE 0,
             country |-> IF selected THEN flat_cards[tab][card_combo[tab] + 1].country
                         ELSE "",
             new_card |-> JNull, desc |-> << >>, ok |-> FALSE, writable |-> disk_ok,
             form |-> card_fields[tab], privacy |-> privacy_mode_checkbox]
            @@ FreshLast(op, tab)]

\* what the user types into the description dialog
Descriptions == {<< >>, <<" ">>, <<"n","1"," ">>}

\* Save New: the description dialog, then save_new_card*
SaveNewCard(tab, desc, ok) ==
    /\ nops < MaxOps
    /\ Becomes(Slot(Call("save_new_card",
           [BeginStore("save_new_card", tab)
                EXCEPT !.last.desc = desc, !.last.ok = ok,
                       !.last.new_card = NewCard(Self, tab, desc)],
           <<tab, desc, ok>>)))
    /\ nops' = nops + 1

\* Save: save_existing_card*
SaveExistingCard(tab) ==
    /\ nops < MaxOps
    /\ Becomes(Slot(Call("save_existing_card", BeginStore("save_existing_card", tab),
                          <<tab>>)))
    /\ nops' = nops + 1

\* Delete: the confirmation, then delete_current_card*
DeleteCard(tab, yes) ==
    /\ nops < MaxOps
    /\ Becomes(Slot(Call("delete_current_card", BeginStore("delete_current_card", tab),
                          <<tab, yes>>)))
    /\ nops' = nops + 1

\* Reload: reload_cards_from_disk*
ReloadCards(tab) ==
    /\ nops < MaxOps
    /\ Becomes(Slot(Call("reload_cards_from_disk",
                          BeginStore("reload_cards_from_disk", tab), <<tab>>)))
    /\ nops' = nops + 1

\* The disk stops or starts taking writes (full, read-only, permissions).
DiskChange ==
    /\ nops < MaxOps
    /\ Becomes([Begin("disk", "") EXCEPT !.disk_ok = ~disk_ok])
    /\ nops' = nops + 1

NextStore ==
    \/ \E tab \in CardTabs, desc \in Descriptions, ok \in BOOLEAN :
         SaveNewCard(tab, desc, ok)
    \/ \E tab \in CardTabs : SaveExistingCard(tab)
    \/ \E tab \in CardTabs, yes \in BOOLEAN : DeleteCard(tab, yes)
    \/ \E tab \in CardTabs : ReloadCards(tab)
    \/ \E tab \in CardTabs, idx \in 0..3 : SelectCard(tab, idx)
    \/ \E text \in KeyInputs : EditKey(text)
    \/ DiskChange

SpecStore == Init /\ [][NextStore]_vars

\* C16: Save New with a reference card selected and a description that is not
\* blank makes the flattened catalog one card longer; the new card has the form's
\* values and the description, lies under the reference card's country and
\* card type, and is in the list again after the catalog is reloaded from disk.
C16_SaveNewAddsOneCard ==
    \A tab \in CardTabs :
        (/\ last.op = "save_new_card" /\ last.tab = tab
         /\ last.selected /\ last.ok /\ Strip(last.desc) # << >>
         /\ last.writable) =>
            /\ Len(flatten_cards(Self)) = last.before + 1
            /\ \E path \in CardPaths(test_data, last.ref) :
                 LET cards == test_data[path[1]].debitcard[path[2]].cards
                 IN /\ test_data[path[1]].country = last.country
                    /\ heap[cards[Len(cards)]] = last.new_card
            /\ LET again == reload_cards_from_disk(Self, tab)
               IN \E i \in 1..Len(again.flat_cards[tab]) :
                    /\ again.flat_cards[tab][i].country = last.country
                    /\ again.heap[again.flat_cards[tab][i].card] = last.new_card

\* C19: a write of the cards catalog or of the config that fails is caught by
\* the operation that made it and shown to the user in a message box; no
\* exception leaves the handler.
C19_WriteFailuresSurfaced ==
    last.failedWrites > 0 =>
        /\ last.exceptions = 0
        /\ "Save error" \in last.notices

\* the card object `card` holds the four values of the form `form`
HoldsForm(card, form) ==
    /\ IsObj(card)
    /\ \A k \in {"card_number", "card_name", "card_due_date", "card_cvv"} : Has(card, k)
    /\ Get(card, "card_number") = JStr(Strip(form[1]))
    /\ Get(card, "card_name") = JStr(Strip(form[2]))
    /\ Get(card, "card_due_date") = JStr(Strip(form[3]))
    /\ Get(card, "card_cvv") = JStr(Strip(form[4]))

\* C22: when Save Existing of a card tab ends with the "Card saved" notice on a
\* disk that takes writes, the selected card is in the catalog in memory with
\* the four values of the form, and a reload of the cards file lists a card of
\* the same country that equals it.
C22_SaveExistingPersists ==
    \A tab \in CardTabs :
        (/\ last.op = "save_existing_card" /\ last.tab = tab
         /\ "Card saved" \in last.notices /\ last.writable) =>
            /\ CardPaths(test_data, last.ref) # {}
            /\ HoldsForm(heap[last.ref], last.form)
            /\ LET again == reload_cards_from_disk(Self, tab)
               IN \E i \in 1..Len(again.flat_cards[tab]) :
                    /\ again.flat_cards[tab][i].country = last.country
                    /\ HoldsForm(again.heap[again.flat_cards[tab][i].card], last.form)
                    /\ again.heap[again.flat_cards[tab][i].card] = heap[last.ref]

\* C23: in every state the flattened list of each card tab has exactly one
\* entry for each card object of the catalog test_data, and every entry of the
\* list refers to a card object that is in the catalog.
C23_FlatListsMatchCatalog ==
    \A tab \in CardTabs :
        LET catalog == flatten_cards(Self)
        IN /\ \A i \in 1..Len(flat_cards[tab]) :
                CardPaths(test_data, flat_cards[tab][i].card) # {}
           /\ \A j \in 1..Len(catalog) :
                Cardinality({i \in 1..Len(flat_cards[tab]) :
                               flat_cards[tab][i].card = catalog[j].card}) = 1

\* C24: after a Save New of a card tab that ends with the "Card added" notice,
\* the card selected in the tab's selector is the object that was added, and it
\* has the values the new card was given.
C24_SaveNewSelectsNewCard ==
    \A tab \in CardTabs :
        (/\ last.op = "save_new_card" /\ last.tab = tab
         /\ "Card added" \in last.notices /\ last.exceptions = 0) =>
            /\ IndexInRange(card_combo[tab], flat_cards[tab])
            /\ flat_cards[tab][card_combo[tab] + 1].card = Len(heap)
            /\ heap[flat_cards[tab][card_combo[tab] + 1].card] = last.new_card

\* the JSON value is a string with a "*" in it, as the masks write it
Starred(value) ==
    /\ value.t = "str"
    /\ \E i \in 1..Len(value.v) : value.v[i] = "*"

\* the payload has a masked key, card number or CVV
MaskedPayload(payload) ==
    /\ IsObj(payload)
    /\ \/ Has(payload, "integration_key") /\ Starred(Get(payload, "integration_key"))
       \/ /\ HasPaymentCard(payload) /\ IsObj(PaymentCard(payload))
          /\ \E k \in {"card_number", "card_cvv"} :
                Has(PaymentCard(payload), k) /\ Starred(Get(PaymentCard(payload), k))

\* the stored card has a masked number or CVV, or a stored custom payload with
\* a masked value
MaskedCard(card) ==
    \/ \E k \in {"card_number", "card_cvv"} : Has(card, k) /\ Starred(Get(card, k))
    \/ \E k \in {"custom_payload", "custom_payload_3ds"} :
          Has(card, k) /\ MaskedPayload(Get(card, k))

\* C27: no card of the catalog, in memory or in the cards file, has a masked
\* card number or CVV or a custom payload with a masked card number, CVV or
\* API key, whatever was done while privacy mode was on.
C27_PrivacyKeepsStoredData ==
    /\ \A i \in 1..Len(flatten_cards(Self)) :
          ~MaskedCard(heap[flatten_cards(Self)[i].card])
    /\ files[CardsPath].k = "json" =>
          \A i \in 1..Len(CatalogCards(files[CardsPath].v)) :
              ~MaskedCard(CatalogCards(files[CardsPath].v)[i])

\* ------------------------------------------------------------------------
\* Program start: the data files and the config file as they are found
\* ------------------------------------------------------------------------
\* load_config(): the parsed file when it can be read and parsed, else {};
\* `dict` tells whether the value returned is a dict. A config file is its
\* JSON object, or a record telling why there is none.
load_config(file) ==
    IF "kind" \notin DOMAIN file THEN [dict |-> TRUE, v |-> file]
    ELSE IF file.kind \in {"absent", "unreadable", "invalid"}
    THEN [dict |-> TRUE, v |-> << >>]
    ELSE [dict |-> FALSE, v |-> file.value]

\* the trace of a program start
StartTrace(file) ==
    [crashed |-> FALSE, exited |-> FALSE, cfg_was |-> file] @@ FreshLast("__init__", "")

\* the machine before the program starts: no window, the files on disk
NoWindow(file, fs, writable) ==
    [NewWindow(DefaultConfig, << >>, << >>, fs, writable)
        EXCEPT !.config_file = file, !.last = FreshLast("boot", "")]

\* main(): TesterWindow() loads both catalogs (SystemExit(1) after a "Data
\* error" box when a load raises), then the config, then builds the window;
\* cfg.get on a value that is no dict raises AttributeError out of __init__
main(file, fs, writable) ==
    LET cards == load_json(fs, writable, CardsPath)
        apms  == load_json(cards.files, writable, ApmsPath)
        cfg   == load_config(file)
        off   == [NoWindow(file, fs, writable) EXCEPT !.last = StartTrace(file)]
    IN IF cards.raised # ""
       THEN Notice([off EXCEPT !.last.exited = TRUE], "Data error")
       ELSE IF apms.raised # ""
       THEN Notice([off EXCEPT !.files = cards.files, !.last.exited = TRUE],
                   "Data error")
       ELSE IF ~cfg.dict
       THEN [off EXCEPT !.files = apms.files, !.last.crashed = TRUE]
       ELSE CreateTabs(
              [NewWindow(cfg.v @@ DefaultConfig, CatalogCards(cards.doc),
                         LoadCatalog(cards.doc, 0), apms.files, writable)
                  EXCEPT !.config_file = file, !.last = StartTrace(file)],
              cfg.v @@ DefaultConfig)

\* a catalog file with one country and one card
SmallCatalog ==
    << [country |-> "KE", customer_data |-> CustomerKE,
        debitcard |-> << [card_type |-> "visa", cards |-> <<Card2>>] >>] >>

\* the states test-cards.json is found in
CardFiles == {Absent, TextOf(create_dummy_test_data), TextOf(SmallCatalog), BadFile}

\* the states config.json is found in: the objects of the runs, an object with
\* one key, no file, a file that cannot be read, text that is not JSON, and
\* JSON that is a list
ConfigFiles ==
    Configs \cup
    { [integration_key |-> KeyB],
      [kind |-> "absent"], [kind |-> "unreadable"], [kind |-> "invalid"],
      [kind |-> "value", value |-> JList(<< >>)] }

InitStart ==
    /\ \E file \in ConfigFiles, cards \in CardFiles,
          apms \in {Absent, TextOf(create_dummy_apm_data)},
          other \in {Absent, TextOf(SmallCatalog)}, writable \in BOOLEAN :
         Holds(NoWindow(file,
                        (CardsPath :> cards) @@ (ApmsPath :> apms) @@ (OtherPath :> other),
                        writable))
    /\ live_key = << >>
    /\ nops = 0

\* load_json(path) is called on the files as they are
LoadJson(path) ==
    /\ nops < MaxOps
    /\ last.op \in {"boot", "load_json"}
    /\ Becomes([Self EXCEPT
           !.files = load_json(files, disk_ok, path).files,
           !.last = [op |-> "load_json", tab |-> "", path |-> path,
                     raised |-> load_json(files, disk_ok, path).raised,
                     doc |-> load_json(files, disk_ok, path).doc,
                     before |-> files, writable |-> disk_ok]])
    /\ nops' = nops + 1

\* The program is started.
Start ==
    /\ last.op \in {"boot", "load_json"}
    /\ Becomes(Slot(main(config_file, files, disk_ok)))
    /\ nops' = nops + 1

NextStart ==
    \/ \E path \in Paths : LoadJson(path)
    \/ Start

SpecStart == InitStart /\ [][NextStart]_vars

\* C17: whatever state the config file is in (absent, unreadable, not JSON,
\* JSON that is no object), a start that found its data files builds the
\* window: load_config gives the empty map and the settings are the defaults.
C17_ConfigNeverCrashesStart ==
    (last.op = "__init__" /\ ~last.exited) =>
        /\ ~last.crashed
        /\ "kind" \in DOMAIN last.cfg_was =>
             /\ key_edit = << >>
             /\ base_url_edit = BaseUrl
             /\ soft_descriptor_edit = << >>
             /\ ~soft_descriptor_checkbox
             /\ ~privacy_mode_checkbox

\* two files are the same: both missing, both unparsable, or the same document
SameFile(a, b) == a.k = b.k /\ (a.k = "json" => a.v = b.v)

OverlaidCardKeys ==
    {"card_number", "card_name", "card_due_date", "card_cvv", "soft_descriptor"}

\* two dicts have the same keys and values outside the keys of `except`
SameExcept(a, b, except) ==
    /\ (DOMAIN a.v) \ except = (DOMAIN b.v) \ except
    /\ \A k \in (DOMAIN a.v) \ except : Get(a, k) = Get(b, k)

\* C20: a payload rebuilt for a card whose saved custom payload has a
\* payment.card object equals the custom payload except for card_number,
\* card_name, card_due_date, card_cvv and soft_descriptor in payment.card and
\* the top-level integration_key, and the custom payload is still stored,
\* unchanged, with a card of the catalog.
C20_CustomPayloadPreserved ==
    \A i \in 1..Len(last.builds) :
        LET b == last.builds[i]
        IN (b.had_custom /\ HasPaymentCard(b.custom) /\ IsObj(PaymentCard(b.custom))) =>
            /\ IsObj(b.payload) /\ HasPaymentCard(b.payload)
            /\ IsObj(PaymentCard(b.payload))
            /\ SameExcept(b.payload, b.custom, {"integration_key", "payment"})
            /\ SameExcept(Get(b.payload, "payment"), Get(b.custom, "payment"), {"card"})
            /\ SameExcept(PaymentCard(b.payload), PaymentCard(b.custom), OverlaidCardKeys)
            /\ \E id \in 1..Len(heap) :
                 /\ Has(heap[id], CustomKey(b.tab))
                 /\ Get(heap[id], CustomKey(b.tab)) = b.custom

\* a card field was edited and the rebuild kept the key of the saved payload
\* that the builder does not know, under a card name that is no longer the
\* saved one
C20_Witness ==
    /\ last.op = "on_card_field_changed"
    /\ \E i \in 1..Len(last.builds) :
         LET b == last.builds[i]
         IN /\ b.had_custom /\ HasPaymentCard(b.custom) /\ IsObj(PaymentCard(b.custom))
            /\ Has(b.custom, "merchant") /\ Has(b.payload, "merchant")
            /\ HasPaymentCard(b.payload)
            /\ Get(PaymentCard(b.payload), "card_name")
                 # Get(PaymentCard(b.custom), "card_name")

\* C26: whenever privacy mode is off the stored original key is the text of the
\* API-key field, and a step that turns privacy mode off leaves in the field
\* the key that was live before privacy mode was turned on.
C26_PrivacyRoundTripKeepsKey ==
    /\ [](~privacy_mode_checkbox => original_api_key = key_edit)
    /\ [][(privacy_mode_checkbox /\ ~privacy_mode_checkbox') => key_edit' = live_key]_vars

\* ------------------------------------------------------------------------
\* Requests in flight and the response views
\* ------------------------------------------------------------------------
\* The user clicks Clear above a response view.
ClearResponse(tab) ==
    /\ nops < MaxOps
    /\ Becomes(Slot(Call("clear_response", Begin("clear_response", tab), <<tab>>)))
    /\ nops' = nops + 1

\* The user clicks the enabled "Authenticate 3DS in Browser" button.
Authenticate ==
    /\ nops < MaxOps
    /\ authenticate_3ds_btn
    /\ Becomes(Slot(Call("authenticate_3ds_in_browser_3ds",
                          Begin("authenticate_3ds_in_browser_3ds", "3ds"), << >>)))
    /\ nops' = nops + 1

NextRun ==
    \/ \E tab \in Tabs : RunTest(tab)
    \/ \E tab \in Tabs, outcome \in {"finished", "error", "raised"} :
         \E resp \in RepliesFor(tab) \cup {NoReply} : WorkerRun(tab, outcome, resp)
    \/ \E tab \in Tabs : HandleApiResponse(tab)
    \/ \E tab \in Tabs : HandleApiError(tab)
    \/ \E tab \in Tabs : ClearResponse(tab)
    \/ Authenticate
    \/ \E text \in KeyInputs : EditKey(text)
    \/ \E tab \in CardTabs, idx \in 0..2 : SelectCard(tab, idx)
    \/ \E name \in {"name", "amount_total"} :
         \E text \in {<< >>, <<"9">>} : EditApmField(name, text)
    \/ EditPayload("apm")

SpecRun == Init /\ [][NextRun]_vars

\* the step handles the completion of the request in flight of this tab
Completes(tab) ==
    /\ threads[tab] # << >>
    /\ threads[tab][1].state \in {"finished", "error"}
    /\ Len(threads'[tab]) = Len(threads[tab]) - 1

\* C21: while a request is in flight its URL, PTP header and body do not
\* change, whatever is edited; and the handling of a completion writes only to
\* the response view of the request's own tab, starts with the request header
\* made when that request was dispatched, enables the Run button of its own
\* tab and leaves the views and Run buttons of the other tabs as they are.
C21_InFlightIsolated ==
    [][/\ \A tab \in Tabs :
            (threads[tab] # << >> /\ Len(threads'[tab]) = Len(threads[tab])) =>
                /\ threads'[tab][1].url = threads[tab][1].url
                /\ threads'[tab][1].ptp = threads[tab][1].ptp
                /\ threads'[tab][1].payload_data = threads[tab][1].payload_data
       /\ \A tab \in Tabs :
            Completes(tab) =>
                /\ \A other \in Tabs \ {tab} :
                      /\ response_edit'[other] = response_edit[other]
                      /\ run_btn'[other] = run_btn[other]
                      /\ threads'[other] = threads[other]
                /\ run_btn'[tab]
                /\ last'.appended # << >>
                /\ \A i \in 1..Len(last'.appended) : last'.appended[i].tab = tab
                /\ last'.appended[1].block.kind = "info"
                /\ last'.appended[1].block.info = latest_request_info[tab]
                /\ last'.appended[1].block.info.url = threads[tab][1].url
                /\ last'.appended[1].block.info.ptp = threads[tab][1].ptp
      ]_vars

\* the 3DS tab's completion was handled while a request of the Non-3DS tab
\* with another PTP, dispatched before an edit of the key, was in flight
C21_Witness ==
    /\ last.op \in {"_handle_api_response", "_handle_api_error"}
    /\ last.tab = "3ds"
    /\ threads["non3ds"] # << >>
    /\ threads["non3ds"][1].ptp # last.appended[1].block.info.ptp
    /\ run_btn["3ds"] /\ ~run_btn["non3ds"]
    /\ GetOr(threads["non3ds"][1].payload_data, "integration_key", JNull)
         # JStr(key_edit)

\* the redirect URL of a response: the string at
\* payment.threedsecure.threeds_redirect_url of a JSON body when it starts
\* with "http", else << >>
HttpRedirectOf(resp) ==
    IF /\ resp.json
       /\ Has(resp.data, "payment")
       /\ Has(Get(resp.data, "payment"), "threedsecure")
       /\ Has(Get(Get(resp.data, "payment"), "threedsecure"), "threeds_redirect_url")
    THEN LET url == Get(Get(Get(resp.data, "payment"), "threedsecure"),
                        "threeds_redirect_url")
         IN IF url.t = "str" /\ Len(url.v) >= 4 /\ SubSeq(url.v, 1, 4) = <<"h","t","t","p">>
            THEN url.v ELSE << >>
    ELSE << >>

\* C25: after a response of the 3DS tab is handled the Authenticate button is
\* enabled exactly when the response is JSON with a string
\* payment.threedsecure.threeds_redirect_url that starts with "http"; a Run
\* Test that dispatches and a Clear leave it disabled; and a click on the
\* enabled button opens exactly the URL of that response in the browser.
C25_AuthenticateOpensRedirect ==
    /\ (last.op = "_handle_api_response" /\ last.tab = "3ds") =>
          /\ authenticate_3ds_btn <=> HttpRedirectOf(last.resp) # << >>
          /\ authenticate_3ds_btn => current_3ds_url = HttpRedirectOf(last.resp)
    /\ (last.op = "run_test" /\ last.tab = "3ds" /\ last.dispatched) =>
          ~authenticate_3ds_btn
    /\ (last.op = "clear_response" /\ last.tab = "3ds") => ~authenticate_3ds_btn
    /\ last.op = "authenticate_3ds_in_browser_3ds" =>
          /\ current_3ds_url # << >>
          /\ last.opened = <<current_3ds_url>>

\* C30: after a response is handled the tab's response view holds, in this
\* order, the request header of the request, the status line with the status
\* code of the response, and the body: the parsed JSON, or the text of a body
\* that is not JSON.
C30_ViewKeepsHeaderAndStatus ==
    \A tab \in Tabs :
        (last.op = "_handle_api_response" /\ last.tab = tab) =>
            \E i, j, k \in 1..Len(response_edit[tab]) :
                /\ i < j /\ j < k
                /\ response_edit[tab][i].kind = "info"
                /\ response_edit[tab][i].info = latest_request_info[tab]
                /\ response_edit[tab][j].kind = "status"
                /\ response_edit[tab][j].body = JNum(last.resp.status)
                /\ IF last.resp.json
                   THEN /\ response_edit[tab][k].kind = "json"
                        /\ response_edit[tab][k].body = last.resp.data
                   ELSE /\ response_edit[tab][k].kind = "text"
                        /\ response_edit[tab][k].body = JStr(last.resp.text)

\* ------------------------------------------------------------------------
\* The APM profile store
\* ------------------------------------------------------------------------
\* Save APM: save_existing_apm
SaveExistingApm ==
    /\ nops < MaxOps
    /\ Becomes(Slot(Call("save_existing_apm", Begin("save_existing_apm", "apm"), << >>)))
    /\ nops' = nops + 1

\* Delete APM: delete_current_apm with the answer to the confirmation
DeleteApm(yes) ==
    /\ nops < MaxOps
    /\ Becomes(Slot(Call("delete_current_apm", Begin("delete_current_apm", "apm"),
                          <<yes>>)))
    /\ nops' = nops + 1

\* Reload APMs: reload_apms_from_disk
ReloadApms ==
    /\ nops < MaxOps
    /\ Becomes(Slot(Call("reload_apms_from_disk", Begin("reload_apms_from_disk", "apm"),
                          << >>)))
    /\ nops' = nops + 1

NextApm ==
    \/ SaveExistingApm
    \/ \E yes \in BOOLEAN : DeleteApm(yes)
    \/ ReloadApms
    \/ RunTest("apm")
    \/ \E idx \in 0..1 : SelectApm(idx)
    \/ \E text \in {<< >>, <<"9">>} : EditApmField("name", text)
    \/ \E tab \in Tabs : EditPayload(tab)
    \/ \E tab \in CardTabs : SaveExistingCard(tab)
    \/ DiskChange

SpecApm == Init /\ [][NextApm]_vars

\* an APM profile is selected
ApmSelected == IndexInRange(apm_combo, apm_flat_list)

\* C28: an operation of the APM tab that starts with no APM profile selected
\* leaves no exception unhandled, starts no request and leaves the APM catalog
\* as it was; Run Test, Save APM and Delete APM show the "No APM Selected"
\* notice.
C28_NoApmSelectedIsHandled ==
    [][(/\ ~ApmSelected
        /\ nops' = nops + 1
        /\ last'.tab = "apm"
        /\ last'.op \in {"run_test", "save_existing_apm", "delete_current_apm",
                         "on_apm_field_changed"}) =>
            /\ last'.exceptions = 0
            /\ ~last'.dispatched
            /\ threads' = threads
            /\ self_apm_data' = self_apm_data
            /\ files' = files
            /\ last'.op # "on_apm_field_changed" => "No APM Selected" \in last'.notices
      ]_vars

\* two JSON values are the same value
SameJ(a, b) == a.t = b.t /\ a = b

\* the payload a list of profiles holds for the profile of `entry`
PayloadIn(list, entry) ==
    LET places == ApmPlaces(list, entry)
    IN IF places = {} THEN JStr(<<"?">>)
       ELSE GetOr(list[CHOOSE i \in places : TRUE].apm_data, "payload", JStr(<<"-">>))

\* the custom payload a card holds for a tab
CustomIn(card, tab) == GetOr(card, CustomKey(tab), JStr(<<"-">>))

\* C29: Save Existing / Save APM with a payload editor whose text is not valid
\* JSON leaves the stored payload of the selected card or APM profile as it
\* was, in memory and in the file, and shows a warning or error notice.
C29_InvalidJsonKeepsStoredPayload ==
    [][/\ \A tab \in CardTabs :
            (/\ payload_edit[tab].k # "json"
             /\ IndexInRange(card_combo[tab], flat_cards[tab])
             /\ nops' = nops + 1
             /\ last'.op = "save_existing_card" /\ last'.tab = tab) =>
                LET id == flat_cards[tab][card_combo[tab] + 1].card
                IN /\ SameJ(CustomIn(heap'[id], tab), CustomIn(heap[id], tab))
                   /\ \/ files'[CardsPath] = files[CardsPath]
                      \/ files'[CardsPath] = TextOf(DumpCatalog(test_data', heap'))
                   /\ "Invalid JSON" \in last'.notices
       /\ (/\ payload_edit["apm"].k # "json"
           /\ ApmSelected
           /\ nops' = nops + 1
           /\ last'.op = "save_existing_apm") =>
              LET entry == apm_flat_list[apm_combo + 1]
              IN /\ SameJ(PayloadIn(self_apm_data', entry), PayloadIn(self_apm_data, entry))
                 /\ files[ApmsPath].k = "json" =>
                      /\ files'[ApmsPath].k = "json"
                      /\ SameJ(PayloadIn(files'[ApmsPath].v, entry),
                               PayloadIn(files[ApmsPath].v, entry))
                 /\ last'.notices \cap {"Invalid JSON", "Save Error"} # {}
      ]_vars

====
